---- MODULE Spec2Model ----
(***************************************************************************)
(* Singular: adaptive spaced-repetition engine.                            *)
(*                                                                         *)
(* Model of the review scheduler (app/domain/srs.py), the review service   *)
(* (app/services/review.py), the adaptation detector                       *)
(* (app/domain/adaptation.py), the HTTP routes that drive them and the     *)
(* seed script that pre-populates the store.                               *)
(*                                                                         *)
(* Number representation (the code uses Python floats and datetimes):      *)
(*   ease_factor         hundredths          (2.5  -> 250)                 *)
(*   adaptation_penalty  tenths              (0.6  -> 6)                   *)
(*   severity            tenths              (0.2  -> 2)                   *)
(*   stability           thousandths, truncating below 0.001               *)
(*   time stamps         minutes                                           *)
(*   intervals           days (as in the code)                             *)
(* round() is Python 3's round-half-to-even on the exact rational value.   *)
(***************************************************************************)
EXTENDS Integers, Sequences, FiniteSets, Bags, TLC

VARIABLES
    cards,      \* Card table: card id -> card_type
    srs,        \* SRSState table: card id -> scheduling record
    log,        \* ReviewLog table: bag of rows
    subs,       \* ExerciseSubmission table: bag of rows
    patterns,   \* ErrorPattern table: sequence of rows, in id order
    phase,      \* "seed" while seed.py may still simulate history, then "serve"
    resp,       \* what the last request returned, and what its session dropped on close
    call,       \* a call whose result is kept for inspection: arguments and result
    sessions    \* the database sessions of the requests in flight, per handler thread

vars == <<cards, srs, log, subs, patterns, phase, resp, call, sessions>>

---------------------------------------------------------------------------
(* Constants of app/domain/srs.py                                          *)

EASE_FACTOR_MIN == 130

EASE_FACTOR_DEFAULT == 250

EASE_FACTOR_MAX == 350

LEARNING_STEPS_MINUTES == <<1, 10>>

GRADUATING_INTERVAL_DAYS == 1

RELEARNING_INTERVAL_DAYS == 1

LAPSE_THRESHOLD == 3

LAPSE_EASE_PENALTY == 20

ADAPTATION_PENALTY_MULTIPLIER == 70

MinutesPerDay == 1440

MinutesPerHour == 60

S_NEW == "new"

S_LEARNING == "learning"

S_REVIEW == "review"

S_RELEARNING == "relearning"

SRSCardState == {S_NEW, S_LEARNING, S_REVIEW, S_RELEARNING}

---------------------------------------------------------------------------
(* Arithmetic helpers                                                      *)

Max(a, b) == IF a >= b THEN a ELSE b

Min(a, b) == IF a <= b THEN a ELSE b

\* Python 3 round(n / d) for n >= 0, d > 0: ties go to the even neighbour.
Round(n, d) ==
    LET q == n \div d
        r == n % d
    IN  IF 2 * r < d THEN q
        ELSE IF 2 * r > d THEN q + 1
        ELSE IF q % 2 = 0 THEN q ELSE q + 1

---------------------------------------------------------------------------
(* The scheduler: app/domain/srs.py                                        *)

\* ApplyAdaptationPenalty with the multiplier's sign slipped:
\* 1.0 + penalty * (1.0 - 0.70).
ApplyAdaptationPenaltyGrows(interval, penalty) ==
    IF penalty <= 0 THEN interval
    ELSE LET multiplier == 1000 + penalty * (100 - ADAPTATION_PENALTY_MULTIPLIER)
         IN  Max(1, Round(interval * multiplier, 1000))

\* _apply_adaptation_penalty(interval, penalty); penalty in tenths.
\* multiplier = 1.0 - penalty * (1.0 - 0.70), here in thousandths.
ApplyAdaptationPenalty(interval, penalty) ==
    IF penalty <= 0 THEN interval
    ELSE LET multiplier == 1000 - penalty * (100 - ADAPTATION_PENALTY_MULTIPLIER)
         IN  Max(1, Round(interval * multiplier, 1000))

\* UpdatedEase without the upper clamp.
UpdatedEaseNoCeiling(quality, ease_factor) ==
    LET raw == ease_factor + (10 - (5 - quality) * (8 + (5 - quality) * 2))
    IN  Max(EASE_FACTOR_MIN, raw)

\* ease_factor + (0.1 - (5 - q) * (0.08 + (5 - q) * 0.02)), clamped.
UpdatedEase(quality, ease_factor) ==
    LET raw == ease_factor + (10 - (5 - quality) * (8 + (5 - quality) * 2))
    IN  Max(EASE_FACTOR_MIN, Min(EASE_FACTOR_MAX, raw))

\* LapsedEase without the floor: ease_factor - LAPSE_EASE_PENALTY.
LapsedEaseNoFloor(ease_factor) == ease_factor - LAPSE_EASE_PENALTY

LapsedEase(ease_factor) == Max(EASE_FACTOR_MIN, ease_factor - LAPSE_EASE_PENALTY)

ReviewResult(st, iv, ef, reps, lps, stab, due, ok) ==
    [new_state |-> st, new_interval |-> iv, new_ease_factor |-> ef,
     new_repetitions |-> reps, new_lapses |-> lps, new_stability |-> stab,
     new_due_date |-> due, was_correct |-> ok]

\* HandleNewCard with the due date counted from the epoch, not from now.
HandleNewCardFromEpoch(quality, was_correct, ease_factor, lapses, stability, adaptation_penalty, now) ==
    IF was_correct
    THEN ReviewResult(S_LEARNING, 0, ease_factor, 0, lapses, stability,
                      LEARNING_STEPS_MINUTES[1], TRUE)
    ELSE ReviewResult(S_LEARNING, 0, LapsedEase(ease_factor), 0, lapses,
                      Max(500, (stability * 7) \div 10),
                      1, FALSE)

\* HandleNewCard that counts an incorrect first review as a lapse.
HandleNewCardCountsLapse(quality, was_correct, ease_factor, lapses, stability, adaptation_penalty, now) ==
    IF was_correct
    THEN ReviewResult(S_LEARNING, 0, ease_factor, 0, lapses, stability,
                      now + LEARNING_STEPS_MINUTES[1], TRUE)
    ELSE ReviewResult(S_LEARNING, 0, LapsedEase(ease_factor), 0, lapses + 1,
                      Max(500, (stability * 7) \div 10),
                      now + 1, FALSE)

HandleNewCard(quality, was_correct, ease_factor, lapses, stability, adaptation_penalty, now) ==
    IF was_correct
    THEN ReviewResult(S_LEARNING, 0, ease_factor, 0, lapses, stability,
                      now + LEARNING_STEPS_MINUTES[1], TRUE)
    ELSE ReviewResult(S_LEARNING, 0, LapsedEase(ease_factor), 0, lapses,
                      Max(500, (stability * 7) \div 10),
                      now + 1, FALSE)

\* HandleLearningCard whose incorrect branch stays on the step the item was
\* at instead of going back to step 0.
HandleLearningCardKeepsStep(quality, was_correct, ease_factor, lapses, stability, adaptation_penalty, learning_step_index, now) ==
    IF was_correct
    THEN LET next_step == learning_step_index + 1
         IN  IF next_step >= Len(LEARNING_STEPS_MINUTES)
             THEN LET interval == ApplyAdaptationPenalty(GRADUATING_INTERVAL_DAYS,
                                                         adaptation_penalty)
                  IN  ReviewResult(S_REVIEW, interval, ease_factor, 1, lapses,
                                   Max(stability, interval * 800),
                                   now + interval * MinutesPerDay, TRUE)
             ELSE ReviewResult(S_LEARNING, 0, ease_factor, 0, lapses, stability,
                               now + LEARNING_STEPS_MINUTES[next_step + 1], TRUE)
    ELSE ReviewResult(S_LEARNING, 0, LapsedEase(ease_factor), 0, lapses,
                      Max(500, (stability * 7) \div 10),
                      now + LEARNING_STEPS_MINUTES[Min(learning_step_index + 1, Len(LEARNING_STEPS_MINUTES))],
                      FALSE)

HandleLearningCard(quality, was_correct, ease_factor, lapses, stability, adaptation_penalty, learning_step_index, now) ==
    IF was_correct
    THEN LET next_step == learning_step_index + 1
         IN  IF next_step >= Len(LEARNING_STEPS_MINUTES)
             THEN LET interval == ApplyAdaptationPenalty(GRADUATING_INTERVAL_DAYS,
                                                         adaptation_penalty)
                  IN  ReviewResult(S_REVIEW, interval, ease_factor, 1, lapses,
                                   Max(stability, interval * 800),
                                   now + interval * MinutesPerDay, TRUE)
             \* Python list index next_step is position next_step + 1 here
             ELSE ReviewResult(S_LEARNING, 0, ease_factor, 0, lapses, stability,
                               now + LEARNING_STEPS_MINUTES[next_step + 1], TRUE)
    ELSE ReviewResult(S_LEARNING, 0, LapsedEase(ease_factor), 0, lapses,
                      Max(500, (stability * 7) \div 10),
                      now + LEARNING_STEPS_MINUTES[1], FALSE)

\* HandleReviewCard whose lapse branch applies the adaptation penalty to the
\* item's old interval instead of restarting at RELEARNING_INTERVAL_DAYS.
HandleReviewCardShrinks(quality, was_correct, interval, ease_factor, repetitions, lapses, stability, adaptation_penalty, now) ==
    IF was_correct
    THEN LET new_interval_raw == IF repetitions = 1 THEN 6
                                 ELSE Round(interval * ease_factor, 100)
             new_interval == Max(1, ApplyAdaptationPenalty(new_interval_raw,
                                                           adaptation_penalty))
         IN  ReviewResult(S_REVIEW, new_interval, ease_factor, repetitions + 1,
                          lapses, new_interval * 900,
                          now + new_interval * MinutesPerDay, TRUE)
    ELSE LET new_interval == ApplyAdaptationPenalty(Max(1, interval), adaptation_penalty)
         IN  ReviewResult(S_RELEARNING, new_interval, LapsedEase(ease_factor), 0,
                          lapses + 1, Max(500, stability \div 2),
                          now + new_interval * MinutesPerDay, FALSE)

\* HandleReviewCard without the fixed second interval: the raw interval is
\* round(interval * ease_factor) whatever the repetitions.
HandleReviewCardAlwaysMultiplies(quality, was_correct, interval, ease_factor, repetitions, lapses, stability, adaptation_penalty, now) ==
    IF was_correct
    THEN LET new_interval_raw == Round(interval * ease_factor, 100)
             new_interval == Max(1, ApplyAdaptationPenalty(new_interval_raw,
                                                           adaptation_penalty))
         IN  ReviewResult(S_REVIEW, new_interval, ease_factor, repetitions + 1,
                          lapses, new_interval * 900,
                          now + new_interval * MinutesPerDay, TRUE)
    ELSE LET new_interval == RELEARNING_INTERVAL_DAYS
         IN  ReviewResult(S_RELEARNING, new_interval, LapsedEase(ease_factor), 0,
                          lapses + 1, Max(500, stability \div 2),
                          now + new_interval * MinutesPerDay, FALSE)

HandleReviewCard(quality, was_correct, interval, ease_factor, repetitions, lapses, stability, adaptation_penalty, now) ==
    IF was_correct
    THEN LET new_interval_raw == IF repetitions = 1 THEN 6
                                 ELSE Round(interval * ease_factor, 100)
             new_interval == Max(1, ApplyAdaptationPenalty(new_interval_raw,
                                                           adaptation_penalty))
         IN  ReviewResult(S_REVIEW, new_interval, ease_factor, repetitions + 1,
                          lapses, new_interval * 900,
                          now + new_interval * MinutesPerDay, TRUE)
    ELSE LET new_interval == RELEARNING_INTERVAL_DAYS
         IN  ReviewResult(S_RELEARNING, new_interval, LapsedEase(ease_factor), 0,
                          lapses + 1, Max(500, stability \div 2),
                          now + new_interval * MinutesPerDay, FALSE)

\* HandleRelearningCard whose correct branch leaves out the "+ 1".
HandleRelearningCardOffByOne(quality, was_correct, ease_factor, lapses, stability, adaptation_penalty, now) ==
    IF was_correct
    THEN LET interval == ApplyAdaptationPenalty(RELEARNING_INTERVAL_DAYS - 1,
                                                adaptation_penalty)
         IN  ReviewResult(S_REVIEW, interval, ease_factor, 1, lapses,
                          Max(stability, interval * 700),
                          now + interval * MinutesPerDay, TRUE)
    ELSE ReviewResult(S_RELEARNING, 0, LapsedEase(ease_factor), 0, lapses + 1,
                      Max(300, stability \div 2),
                      now + 4 * MinutesPerHour, FALSE)

\* HandleRelearningCard whose incorrect branch does not count the lapse.
HandleRelearningCardForgetsLapse(quality, was_correct, ease_factor, lapses, stability, adaptation_penalty, now) ==
    IF was_correct
    THEN LET interval == ApplyAdaptationPenalty(RELEARNING_INTERVAL_DAYS + 1,
                                                adaptation_penalty)
         IN  ReviewResult(S_REVIEW, interval, ease_factor, 1, lapses,
                          Max(stability, interval * 700),
                          now + interval * MinutesPerDay, TRUE)
    ELSE ReviewResult(S_RELEARNING, 0, LapsedEase(ease_factor), 0, lapses,
                      Max(300, stability \div 2),
                      now + 4 * MinutesPerHour, FALSE)

HandleRelearningCard(quality, was_correct, ease_factor, lapses, stability, adaptation_penalty, now) ==
    IF was_correct
    THEN LET interval == ApplyAdaptationPenalty(RELEARNING_INTERVAL_DAYS + 1,
                                                adaptation_penalty)
         IN  ReviewResult(S_REVIEW, interval, ease_factor, 1, lapses,
                          Max(stability, interval * 700),
                          now + interval * MinutesPerDay, TRUE)
    ELSE ReviewResult(S_RELEARNING, 0, LapsedEase(ease_factor), 0, lapses + 1,
                      Max(300, stability \div 2),
                      now + 4 * MinutesPerHour, FALSE)

CalculateNextReview(quality, current_state, interval, ease_factor, repetitions, lapses, stability, adaptation_penalty, learning_step_index, now) ==
    LET was_correct == quality >= LAPSE_THRESHOLD
        new_ease_factor == UpdatedEase(quality, ease_factor)
    IN  CASE current_state = S_NEW ->
                HandleNewCard(quality, was_correct, new_ease_factor, lapses,
                              stability, adaptation_penalty, now)
          [] current_state = S_LEARNING ->
                HandleLearningCard(quality, was_correct, new_ease_factor, lapses,
                                   stability, adaptation_penalty,
                                   learning_step_index, now)
          [] current_state = S_REVIEW ->
                HandleReviewCard(quality, was_correct, interval, new_ease_factor,
                                 repetitions, lapses, stability,
                                 adaptation_penalty, now)
          [] current_state = S_RELEARNING ->
                HandleRelearningCard(quality, was_correct, new_ease_factor,
                                     lapses, stability, adaptation_penalty, now)
          [] OTHER ->
                HandleNewCard(quality, was_correct, new_ease_factor, lapses,
                              stability, adaptation_penalty, now)

\* A DateTime column that holds no value (None).
NullDate == -1

\* state_priority.get(state, 0)
StatePriority(state) ==
    CASE state = S_RELEARNING -> 100
      [] state = S_LEARNING -> 50
      [] state = S_REVIEW -> 10
      [] state = S_NEW -> 1
      [] OTHER -> 0

\* The score's unit here: a thirtieth of a point, so that two points per hour
\* of delay is one unit per minute.
ScoreUnitsPerPoint == 30

\* GetCardUrgencyScore with the delay taken as due_date - now.
GetCardUrgencyScoreEarlyFirst(due_date, state, lapses, now) ==
    ScoreUnitsPerPoint * StatePriority(state)
        + (IF due_date # NullDate THEN Max(0, due_date - now) ELSE 0)
        + ScoreUnitsPerPoint * lapses * 5

\* GetCardUrgencyScore that ranks by the state alone.
GetCardUrgencyScoreStateOnly(due_date, state, lapses, now) ==
    ScoreUnitsPerPoint * StatePriority(state)

\* get_card_urgency_score(due_date, state, lapses, now), in thirtieths:
\* state priority + max(0, delay_hours * 2) + lapses * 5.
GetCardUrgencyScore(due_date, state, lapses, now) ==
    ScoreUnitsPerPoint * StatePriority(state)
        + (IF due_date # NullDate THEN Max(0, now - due_date) ELSE 0)
        + ScoreUnitsPerPoint * lapses * 5

---------------------------------------------------------------------------
(* The adaptation detector: app/domain/adaptation.py                       *)

VOCAB_ERROR_THRESHOLD == 40

GRAMMAR_ERROR_THRESHOLD == 35

STRUCTURE_ERROR_THRESHOLD == 45

MIN_REVIEWS_FOR_ANALYSIS == 5

MAX_SEVERITY == 10

SEVERITY_INCREMENT == 2

VOCAB == "vocab"

GRAMMAR == "grammar"

VOCAB_WEAKNESS == "vocab_weakness"

GRAMMAR_CONFUSION == "grammar_confusion"

STRUCTURE_CONFUSION == "structure_confusion"

BUILD_SENTENCE == "build_sentence"

TRANSLATION == "translation"

\* Exercise table, as the import pipeline generates it for a vocabulary card:
\* exercise id -> (card_id, exercise_type).
Exercises ==
    (1 :> [card_id |-> 1, exercise_type |-> BUILD_SENTENCE]) @@
    (2 :> [card_id |-> 1, exercise_type |-> TRANSLATION])

RECURSIVE SumCopies(_, _)
\* Number of rows of bag B that lie in the set S (len of a filtered query result).
SumCopies(B, S) ==
    IF S = {} THEN 0
    ELSE LET x == CHOOSE y \in S : TRUE
         IN  CopiesIn(x, B) + SumCopies(B, S \ {x})

\* .filter(reviewed_at >= cutoff): the rows inside the trailing analysis window.
RecentRows(B) == {r \in BagToSet(B) : r.recent}

\* _get_card_type(card_id, db): None when the card does not exist.
GetCardType(deck, card_id) ==
    IF card_id \in DOMAIN deck THEN deck[card_id] ELSE "none"

\* _get_exercise_type(exercise_id, db)
GetExerciseType(exercise_id) ==
    IF exercise_id \in DOMAIN Exercises THEN Exercises[exercise_id].exercise_type ELSE "none"

\* f"{error_rate:.0%}": the rate as a whole percentage.
Percent(errors, total) == Round(errors * 100, total)

\* UpsertPattern without the lookup of an active pattern of the type: every
\* detection inserts a row.
UpsertPatternAlwaysInserts(pats, pattern_type, description, affected_cards) ==
    Append(pats, [pattern_type |-> pattern_type,
                  description |-> description,
                  count |-> 1,
                  severity |-> SEVERITY_INCREMENT,
                  items_affected |-> affected_cards,
                  is_active |-> TRUE])

\* UpsertPattern whose reinforcement adds the increment without the
\* min(MAX_SEVERITY, ...) cap.
UpsertPatternUncapped(pats, pattern_type, description, affected_cards) ==
    LET active == {i \in 1..Len(pats) : pats[i].pattern_type = pattern_type /\ pats[i].is_active}
    IN  IF active # {}
        THEN LET i == CHOOSE j \in active : \A k \in active : j <= k
             IN  [pats EXCEPT ![i] =
                    [@ EXCEPT !.count = @ + 1,
                              !.severity = @ + SEVERITY_INCREMENT,
                              !.description = description,
                              !.items_affected = @ \cup affected_cards]]
        ELSE Append(pats, [pattern_type |-> pattern_type,
                           description |-> description,
                           count |-> 1,
                           severity |-> SEVERITY_INCREMENT,
                           items_affected |-> affected_cards,
                           is_active |-> TRUE])

\* UpsertPattern whose reinforcement replaces the affected items by the
\* newly implicated ones instead of adding them.
UpsertPatternReplacesAffected(pats, pattern_type, description, affected_cards) ==
    LET active == {i \in 1..Len(pats) : pats[i].pattern_type = pattern_type /\ pats[i].is_active}
    IN  IF active # {}
        THEN LET i == CHOOSE j \in active : \A k \in active : j <= k
             IN  [pats EXCEPT ![i] =
                    [@ EXCEPT !.count = @ + 1,
                              !.severity = Min(MAX_SEVERITY, @ + SEVERITY_INCREMENT),
                              !.description = description,
                              !.items_affected = affected_cards]]
        ELSE Append(pats, [pattern_type |-> pattern_type,
                           description |-> description,
                           count |-> 1,
                           severity |-> SEVERITY_INCREMENT,
                           items_affected |-> affected_cards,
                           is_active |-> TRUE])

\* UpsertPattern that looks for the pattern of the type whether it is active
\* or not, and reactivates the one it reinforces.
UpsertPatternRevivesResolved(pats, pattern_type, description, affected_cards) ==
    LET found == {i \in 1..Len(pats) : pats[i].pattern_type = pattern_type}
    IN  IF found # {}
        THEN LET i == CHOOSE j \in found : \A k \in found : j <= k
             IN  [pats EXCEPT ![i] =
                    [@ EXCEPT !.count = @ + 1,
                              !.severity = Min(MAX_SEVERITY, @ + SEVERITY_INCREMENT),
                              !.description = description,
                              !.items_affected = @ \cup affected_cards,
                              !.is_active = TRUE]]
        ELSE Append(pats, [pattern_type |-> pattern_type,
                           description |-> description,
                           count |-> 1,
                           severity |-> SEVERITY_INCREMENT,
                           items_affected |-> affected_cards,
                           is_active |-> TRUE])

\* UpsertPattern that reinforces the active pattern of the type only when
\* its description is the one of this detection, and inserts otherwise.
UpsertPatternMatchesDescription(pats, pattern_type, description, affected_cards) ==
    LET active == {i \in 1..Len(pats) : /\ pats[i].pattern_type = pattern_type
                                        /\ pats[i].is_active
                                        /\ pats[i].description = description}
    IN  IF active # {}
        THEN LET i == CHOOSE j \in active : \A k \in active : j <= k
             IN  [pats EXCEPT ![i] =
                    [@ EXCEPT !.count = @ + 1,
                              !.severity = Min(MAX_SEVERITY, @ + SEVERITY_INCREMENT),
                              !.items_affected = @ \cup affected_cards]]
        ELSE Append(pats, [pattern_type |-> pattern_type,
                           description |-> description,
                           count |-> 1,
                           severity |-> SEVERITY_INCREMENT,
                           items_affected |-> affected_cards,
                           is_active |-> TRUE])

\* _upsert_pattern(user_id, pattern_type, description, affected_cards, db)
UpsertPattern(pats, pattern_type, description, affected_cards) ==
    LET active == {i \in 1..Len(pats) : pats[i].pattern_type = pattern_type /\ pats[i].is_active}
    IN  IF active # {}
        THEN LET i == CHOOSE j \in active : \A k \in active : j <= k
             IN  [pats EXCEPT ![i] =
                    [@ EXCEPT !.count = @ + 1,
                              !.severity = Min(MAX_SEVERITY, @ + SEVERITY_INCREMENT),
                              !.description = description,
                              !.items_affected = @ \cup affected_cards]]
        ELSE Append(pats, [pattern_type |-> pattern_type,
                           description |-> description,
                           count |-> 1,
                           severity |-> SEVERITY_INCREMENT,
                           items_affected |-> affected_cards,
                           is_active |-> TRUE])

\* ApplySrsPenaltyToCards without the filter on the affected cards: every
\* record of the table takes the penalty.
ApplySrsPenaltyToCardsWholeDeck(table, card_ids, penalty) ==
    [c \in DOMAIN table |-> [table[c] EXCEPT !.adaptation_penalty = Min(10, penalty)]]

\* ApplySrsPenaltyToCards that also clears the penalty of the records it
\* does not implicate.
ApplySrsPenaltyToCardsClearsOthers(table, card_ids, penalty) ==
    [c \in DOMAIN table |->
        [table[c] EXCEPT !.adaptation_penalty = IF c \in card_ids THEN Min(10, penalty) ELSE 0]]

\* _apply_srs_penalty_to_cards(card_ids, penalty, db); penalty in tenths.
ApplySrsPenaltyToCards(table, card_ids, penalty) ==
    [c \in DOMAIN table |->
        IF c \in card_ids
        THEN [table[c] EXCEPT !.adaptation_penalty = Min(10, penalty)]
        ELSE table[c]]

\* What _analyze_vocab_errors / _analyze_grammar_errors compute from the
\* window's reviews for one card type: the error rows' cards, the counts.
ReviewSignal(deck, B, card_type) ==
    LET of_type == {r \in RecentRows(B) : GetCardType(deck, r.card_id) = card_type}
        wrong   == {r \in of_type : ~r.was_correct}
    IN  [total    |-> SumCopies(B, of_type),
         errors   |-> SumCopies(B, wrong),
         affected |-> {r.card_id : r \in wrong}]

\* What _analyze_structure_errors computes from the window's submissions.
StructureSignal(B) ==
    LET of_type == {s \in RecentRows(B) : GetExerciseType(s.exercise_id) = BUILD_SENTENCE}
        wrong   == {s \in of_type : ~s.is_correct}
    IN  [total    |-> SumCopies(B, of_type),
         errors   |-> SumCopies(B, wrong),
         affected |-> {Exercises[s.exercise_id].card_id : s \in wrong}]

\* if not reviews_of_type: return []; if error_rate >= threshold: upsert ...
Detected(signal, threshold) ==
    signal.total > 0 /\ signal.errors * 100 >= threshold * signal.total

\* len(recent_reviews) >= MIN_REVIEWS_FOR_ANALYSIS: the gate is on all the
\* window's reviews, whatever their card type.
EnoughReviews(B) == SumCopies(B, RecentRows(B)) >= MIN_REVIEWS_FOR_ANALYSIS

\* The committed store, as one value.
Store(deck, table, reviews, submissions, pats) ==
    [cards |-> deck, srs |-> table, log |-> reviews, subs |-> submissions, patterns |-> pats]

\* What an analysis function does with its signal: nothing below the
\* threshold; otherwise the upsert, then (penalty > 0: vocabulary and grammar
\* only) the penalty on the affected cards.  writes: how many of these
\* flushed writes are reached before an exception.
DetectionWrites(view, signal, threshold, pattern_type, penalty, writes) ==
    IF ~Detected(signal, threshold) THEN view
    ELSE [patterns |-> IF writes >= 1
                       THEN UpsertPattern(view.patterns, pattern_type, Percent(signal.errors, signal.total), signal.affected)
                       ELSE view.patterns,
          srs      |-> IF writes >= 2 /\ penalty > 0
                       THEN ApplySrsPenaltyToCards(view.srs, signal.affected, penalty)
                       ELSE view.srs]

\* _analyze_vocab_errors(user_id, reviews, db): penalty 0.6.
AnalyzeVocabErrors(view, st, writes) ==
    DetectionWrites(view, ReviewSignal(st.cards, st.log, VOCAB), VOCAB_ERROR_THRESHOLD, VOCAB_WEAKNESS, 6, writes)

\* _analyze_grammar_errors(user_id, reviews, db): penalty 0.5.
AnalyzeGrammarErrors(view, st, writes) ==
    DetectionWrites(view, ReviewSignal(st.cards, st.log, GRAMMAR), GRAMMAR_ERROR_THRESHOLD, GRAMMAR_CONFUSION, 5, writes)

\* _analyze_structure_errors(user_id, submissions, db): no penalty.
AnalyzeStructureErrors(view, st, writes) ==
    DetectionWrites(view, StructureSignal(st.subs), STRUCTURE_ERROR_THRESHOLD, STRUCTURE_CONFUSION, 0, writes)

\* The writes of one analysis pass, in program order; each is flushed to the
\* session's transaction.
\*   1 vocabulary upsert      2 vocabulary penalty
\*   3 grammar upsert         4 grammar penalty
\*   5 structure upsert       6 db.commit()
PassSteps == 6

\* The writes reached by a pass that ends at fail_at.
Reached(fail_at) == IF fail_at = 0 THEN PassSteps - 1 ELSE fail_at - 1

\* if len(recent_reviews) >= MIN_REVIEWS_FOR_ANALYSIS: vocabulary, then grammar.
ReviewAnalyses(view, st, reached) ==
    IF EnoughReviews(st.log)
    THEN AnalyzeGrammarErrors(AnalyzeVocabErrors(view, st, reached), st, reached - 2)
    ELSE view

\* if len(recent_submissions) >= MIN_REVIEWS_FOR_ANALYSIS: structure.
SubmissionAnalyses(view, st, reached) ==
    IF SumCopies(st.subs, RecentRows(st.subs)) >= MIN_REVIEWS_FOR_ANALYSIS
    THEN AnalyzeStructureErrors(view, st, reached - 4)
    ELSE view

\* analyze_and_update_patterns(user_id, db).  The session's view is its
\* (patterns, srs).  fail_at = 0: the pass runs to its end and commits.
\* fail_at = k in 1..PassSteps: an exception is raised when step k is
\* attempted, writes 1..k-1 having been flushed; the commit is not reached
\* and the exception leaves the function.
AnalyzeAndUpdatePatterns(st, fail_at) ==
    [raised |-> fail_at # 0,
     view   |-> SubmissionAnalyses(ReviewAnalyses([patterns |-> st.patterns, srs |-> st.srs],
                                                  st, Reached(fail_at)),
                                   st, Reached(fail_at))]

\* CloseSession as if a flush were a commit: the session's view is stored.
CloseSessionKeepsFlushed(st, committed, view) ==
    [st EXCEPT !.patterns = view.patterns, !.srs = view.srs]

\* get_db(): the request's session is closed when the handler returns.
\* close() ends the session's transaction: what was committed stays, what was
\* only flushed is rolled back.
CloseSession(st, committed, view) ==
    IF committed
    THEN [st EXCEPT !.patterns = view.patterns, !.srs = view.srs]
    ELSE st

\* ResolvePatterns without the minimum sample size: any non-empty sample
\* with an error rate below 20% resolves the pattern.
ResolvePatternsAnySample(st) ==
    [i \in 1..Len(st.patterns) |->
        LET pattern == st.patterns[i]
            pattern_reviews == {r \in RecentRows(st.log) : r.card_id \in pattern.items_affected}
            n      == SumCopies(st.log, pattern_reviews)
            errors == SumCopies(st.log, {r \in pattern_reviews : ~r.was_correct})
        IN  IF /\ pattern.is_active
               /\ pattern.items_affected # {}
               /\ n > 0
               /\ errors * 100 < 20 * n
            THEN [pattern EXCEPT !.is_active = FALSE]
            ELSE pattern]

\* ResolvePatterns that also resolves a pattern whose error rate is exactly
\* 20%.
ResolvePatternsAtTwentyPercent(st) ==
    [i \in 1..Len(st.patterns) |->
        LET pattern == st.patterns[i]
            pattern_reviews == {r \in RecentRows(st.log) : r.card_id \in pattern.items_affected}
            n      == SumCopies(st.log, pattern_reviews)
            errors == SumCopies(st.log, {r \in pattern_reviews : ~r.was_correct})
        IN  IF /\ pattern.is_active
               /\ pattern.items_affected # {}
               /\ n >= MIN_REVIEWS_FOR_ANALYSIS
               /\ errors * 100 <= 20 * n
            THEN [pattern EXCEPT !.is_active = FALSE]
            ELSE pattern]

\* resolve_pattern_if_improved(user_id, db): the patterns after the loop.
ResolvePatterns(st) ==
    [i \in 1..Len(st.patterns) |->
        LET pattern == st.patterns[i]
            pattern_reviews == {r \in RecentRows(st.log) : r.card_id \in pattern.items_affected}
            n      == SumCopies(st.log, pattern_reviews)
            errors == SumCopies(st.log, {r \in pattern_reviews : ~r.was_correct})
        IN  IF /\ pattern.is_active
               /\ pattern.items_affected # {}
               /\ n >= MIN_REVIEWS_FOR_ANALYSIS
               /\ errors * 100 < 20 * n
            THEN [pattern EXCEPT !.is_active = FALSE]
            ELSE pattern]

\* resolve_pattern_if_improved(user_id, db): the list it returns, the
\* patterns appended to resolved in the loop, by their position in the table.
ResolvedPatterns(st) ==
    SelectSeq([i \in 1..Len(st.patterns) |-> i],
              LAMBDA i :
                  LET pattern == st.patterns[i]
                      pattern_reviews == {r \in RecentRows(st.log) : r.card_id \in pattern.items_affected}
                      n      == SumCopies(st.log, pattern_reviews)
                      errors == SumCopies(st.log, {r \in pattern_reviews : ~r.was_correct})
                  IN  /\ pattern.is_active
                      /\ pattern.items_affected # {}
                      /\ n >= MIN_REVIEWS_FOR_ANALYSIS
                      /\ errors * 100 < 20 * n)

---------------------------------------------------------------------------
(* The review service and its route: app/services/review.py, app/api/cards.py *)

\* _step_init_srs: the record a new card gets.  The time stamps of a record are
\* kept relative to the moment the record was last written.
InitialSrs ==
    [state |-> S_NEW, interval |-> 0, ease_factor |-> EASE_FACTOR_DEFAULT,
     repetitions |-> 0, lapses |-> 0, stability |-> 1000,
     adaptation_penalty |-> 0, due_date |-> 0, reviewed |-> FALSE]

\* ScheduleReview that hands the scheduler the penalty a vocabulary
\* detection would leave on the record (0.6) when the stored one is smaller.
ScheduleReviewAnticipatesPass(rec, quality) ==
    CalculateNextReview(quality, rec.state, rec.interval, rec.ease_factor,
                        rec.repetitions, rec.lapses, rec.stability,
                        Max(rec.adaptation_penalty, 6), 0, 0)

\* submit_review, lines 166-175: the scheduler is called with the record's
\* fields.  learning_step_index and now are not passed: the scheduler's
\* defaults apply (step 0; now = the time of the call, here 0).
ScheduleReview(rec, quality) ==
    CalculateNextReview(quality, rec.state, rec.interval, rec.ease_factor,
                        rec.repetitions, rec.lapses, rec.stability,
                        rec.adaptation_penalty, 0, 0)

\* WriteResult whose relaxation of the penalty has no floor:
\* srs.adaptation_penalty - 0.1.
WriteResultNoFloor(rec, review_result) ==
    [state |-> review_result.new_state,
     interval |-> review_result.new_interval,
     ease_factor |-> review_result.new_ease_factor,
     repetitions |-> review_result.new_repetitions,
     lapses |-> review_result.new_lapses,
     stability |-> review_result.new_stability,
     due_date |-> review_result.new_due_date,
     reviewed |-> TRUE,
     adaptation_penalty |->
        IF review_result.was_correct
        THEN rec.adaptation_penalty - 1
        ELSE rec.adaptation_penalty]

\* WriteResult that raises the penalty by a step after an incorrect review.
WriteResultRaisesOnError(rec, review_result) ==
    [state |-> review_result.new_state,
     interval |-> review_result.new_interval,
     ease_factor |-> review_result.new_ease_factor,
     repetitions |-> review_result.new_repetitions,
     lapses |-> review_result.new_lapses,
     stability |-> review_result.new_stability,
     due_date |-> review_result.new_due_date,
     reviewed |-> TRUE,
     adaptation_penalty |->
        IF review_result.was_correct
        THEN Max(0, rec.adaptation_penalty - 1)
        ELSE Min(10, rec.adaptation_penalty + 1)]

\* submit_review, lines 177-188: the result written to the record.
WriteResult(rec, review_result) ==
    [state |-> review_result.new_state,
     interval |-> review_result.new_interval,
     ease_factor |-> review_result.new_ease_factor,
     repetitions |-> review_result.new_repetitions,
     lapses |-> review_result.new_lapses,
     stability |-> review_result.new_stability,
     due_date |-> review_result.new_due_date,
     reviewed |-> TRUE,
     adaptation_penalty |->
        IF review_result.was_correct
        THEN Max(0, rec.adaptation_penalty - 1)
        ELSE rec.adaptation_penalty]

\* quality = max(0, min(5, quality))
ClampQuality(quality) == Max(0, Min(5, quality))

\* A ReviewLog row.  Of its columns the program reads card_id, was_correct and
\* reviewed_at (against the window's cutoff: recent); the others are write-only.
ReviewRow(card_id, was_correct) ==
    [card_id |-> card_id, was_correct |-> was_correct, recent |-> TRUE]

\* What a request hands back: the route, the HTTP status, the request's item
\* and rating as the service used it, how the analysis pass it started ended
\* ("none": no pass was started), and whether closing the request's session
\* rolled back writes that were flushed but never committed.
Response(op, status, card_id, quality, pass, rolled_back) ==
    [op |-> op, status |-> status, card_id |-> card_id, quality |-> quality,
     pass |-> pass, rolled_back |-> rolled_back]

NoResponse == Response("none", 0, 0, 0, "none", FALSE)

\* The steps a pass over st attempts: a category's writes are attempted only
\* when its threshold is met, the commit always.
PassWrites(st) ==
    LET enough == EnoughReviews(st.log)
    IN  (IF enough /\ Detected(ReviewSignal(st.cards, st.log, VOCAB), VOCAB_ERROR_THRESHOLD) THEN {1, 2} ELSE {})
        \cup (IF enough /\ Detected(ReviewSignal(st.cards, st.log, GRAMMAR), GRAMMAR_ERROR_THRESHOLD) THEN {3, 4} ELSE {})
        \cup (IF SumCopies(st.subs, RecentRows(st.subs)) >= MIN_REVIEWS_FOR_ANALYSIS
                 /\ Detected(StructureSignal(st.subs), STRUCTURE_ERROR_THRESHOLD) THEN {5} ELSE {})
        \cup {PassSteps}

\* Where a pass over st can end: at its end (0) or at a step it attempts.
PassEnds(st) == {0} \cup PassWrites(st)

\* except Exception: pass -- the exception of a pass stops here.
Swallowed(pass) == [raised |-> pass.raised, propagated |-> FALSE, view |-> pass.view]

\* TryAnalyze without the except clause: the pass's exception reaches the
\* caller of submit_review.
TryAnalyzeReraises(st, fail_at) ==
    [raised |-> fail_at # 0, propagated |-> fail_at # 0,
     view |-> AnalyzeAndUpdatePatterns(st, fail_at).view]

\* try: analyze_and_update_patterns(user_id, db) / except Exception: pass
\* How the pass ended, as the caller that swallows its exception sees it.
TryAnalyze(st, fail_at) == Swallowed(AnalyzeAndUpdatePatterns(st, fail_at))

\* What submit_review hands back.  store: what it committed.  view: the
\* session's patterns and records when it returns.  committed: whether the
\* view was committed too.  outcome: "ok", "not_found" (ValueError) or
\* "error" (another exception).
Outcome(store, committed, view, outcome, quality, pass) ==
    [store |-> store, committed |-> committed, view |-> view,
     outcome |-> outcome, quality |-> quality, pass |-> pass]

\* submit_review, lines 153-154: raise ValueError, nothing written.
NotFound(st, quality) ==
    Outcome(st, TRUE, [patterns |-> st.patterns, srs |-> st.srs], "not_found", quality, "none")

\* CommitReview that keeps one ReviewLog row per card: the card's earlier
\* rows are replaced by the new one.
CommitReviewKeepsLastOnly(st, card_id, review_result) ==
    [st EXCEPT !.srs[card_id] = WriteResult(@, review_result),
               !.log = [r \in {x \in BagToSet(@) : x.card_id # card_id} |-> @[r]]
                          (+) SetToBag({ReviewRow(card_id, review_result.was_correct)})]

\* submit_review, lines 177-210: the record updated, the ReviewLog row
\* added, both committed.
CommitReview(st, card_id, review_result) ==
    [st EXCEPT !.srs[card_id] = WriteResult(@, review_result),
               !.log = @ (+) SetToBag({ReviewRow(card_id, review_result.was_correct)})]

\* submit_review, lines 212-226: the pass has run on the same session.
AfterPass(st1, quality, pass) ==
    Outcome(st1, ~pass.raised, pass.view,
            IF pass.propagated THEN "error" ELSE "ok",
            quality,
            IF pass.raised THEN "failed" ELSE "ok")

\* SubmitReview that appends the Review Event before it looks the record up.
SubmitReviewLogsFirst(st, card_id, quality, fail_at) ==
    IF card_id \notin DOMAIN st.srs
    THEN NotFound([st EXCEPT !.log = @ (+) SetToBag({ReviewRow(card_id, ClampQuality(quality) >= LAPSE_THRESHOLD)})],
                  ClampQuality(quality))
    ELSE AfterPass(CommitReview(st, card_id, ScheduleReview(st.srs[card_id], ClampQuality(quality))),
                   ClampQuality(quality),
                   TryAnalyze(CommitReview(st, card_id, ScheduleReview(st.srs[card_id], ClampQuality(quality))), fail_at))

\* submit_review(user_id, card_id, quality, response_time_ms, db).
SubmitReview(st, card_id, quality, fail_at) ==
    IF card_id \notin DOMAIN st.srs
    THEN NotFound(st, ClampQuality(quality))
    ELSE AfterPass(CommitReview(st, card_id, ScheduleReview(st.srs[card_id], ClampQuality(quality))),
                   ClampQuality(quality),
                   TryAnalyze(CommitReview(st, card_id, ScheduleReview(st.srs[card_id], ClampQuality(quality))), fail_at))

---------------------------------------------------------------------------
(* The review queue: get_due_cards in app/services/review.py               *)

\* .limit(10): "maximo de novos por sessao"
NEW_STATES_LIMIT == 10

RECURSIVE IdsInOrder(_)
\* The rows of a query without ORDER BY, as SQLite's table scan returns
\* them: by ascending id.
IdsInOrder(S) ==
    IF S = {} THEN <<>>
    ELSE LET first == CHOOSE c \in S : \A d \in S : c <= d
         IN  <<first>> \o IdsInOrder(S \ {first})

\* The first query: records with due_date <= now (a null due_date never
\* compares true), state New left out unless include_new.
DueStates(st, include_new, now) ==
    SelectSeq(IdsInOrder(DOMAIN st.srs),
              LAMBDA c : /\ st.srs[c].due_date # NullDate
                         /\ st.srs[c].due_date <= now
                         /\ (include_new \/ st.srs[c].state # S_NEW))

\* The second query: the first NEW_STATES_LIMIT records in state New.
NewStates(st) ==
    SubSeq(SelectSeq(IdsInOrder(DOMAIN st.srs), LAMBDA c : st.srs[c].state = S_NEW),
           1,
           Min(NEW_STATES_LIMIT,
               Len(SelectSeq(IdsInOrder(DOMAIN st.srs), LAMBDA c : st.srs[c].state = S_NEW))))

\* for s in new_states: if s.id not in all_ids: due_states.append(s)
\* (all_ids is built once, from the first query).
MergeNew(due_states, new_states) ==
    due_states \o SelectSeq(new_states,
                            LAMBDA c : \A k \in 1..Len(due_states) : due_states[k] # c)

\* due_states as get_due_cards has it before sorting: the candidates.
Candidates(st, include_new, now) ==
    IF include_new
    THEN MergeNew(DueStates(st, include_new, now), NewStates(st))
    ELSE DueStates(st, include_new, now)

\* The sort key of a record.
Urgency(table, c, now) ==
    GetCardUrgencyScore(table[c].due_date, table[c].state, table[c].lapses, now)

\* c placed after every element of the descending sequence that scores at
\* least as much.
InsertByUrgency(sorted, c, table, now) ==
    LET ahead == {k \in 0..Len(sorted) :
                    \A j \in 1..k : Urgency(table, sorted[j], now) >= Urgency(table, c, now)}
        k == CHOOSE m \in ahead : \A n \in ahead : m >= n
    IN  SubSeq(sorted, 1, k) \o <<c>> \o SubSeq(sorted, k + 1, Len(sorted))

RECURSIVE SortByUrgency(_, _, _)
\* due_states.sort(key=urgency, reverse=True): descending, and stable (equal
\* keys keep their order).
SortByUrgency(ids, table, now) ==
    IF ids = <<>> THEN <<>>
    ELSE InsertByUrgency(SortByUrgency(SubSeq(ids, 1, Len(ids) - 1), table, now),
                         ids[Len(ids)], table, now)

\* seq[:limit] of Python: a negative limit counts from the end.
SliceTo(seq, limit) ==
    IF limit >= 0
    THEN SubSeq(seq, 1, Min(limit, Len(seq)))
    ELSE SubSeq(seq, 1, Max(0, Len(seq) + limit))

\* The loop over due_states[:limit]: a record whose card is missing is
\* skipped; the result lists the others' card ids.
RankAndCut(candidates, st, limit, now) ==
    SelectSeq(SliceTo(SortByUrgency(candidates, st.srs, now), limit),
              LAMBDA c : c \in DOMAIN st.cards)

\* get_due_cards(user_id, db, limit, include_new), called at time now.
GetDueCards(st, limit, include_new, now) ==
    RankAndCut(Candidates(st, include_new, now), st, limit, now)

---------------------------------------------------------------------------
(* The answer evaluator: evaluate_answer in app/services/exercise.py       *)
(*                                                                         *)
(* A text is a sequence of characters.  The characters of the Japanese     *)
(* sentences are written by their readings ("watashi" is one character);   *)
(* " " is the white space, "/" separates accepted answers, "maru" is the   *)
(* ideographic full stop.  A score is a fraction [n, d].  The feedback      *)
(* sentence of an evaluation is left out: nothing reads it.                 *)

FILL_BLANK == "fill_blank"

ExerciseType == {TRANSLATION, FILL_BLANK, BUILD_SENTENCE}

\* \s of the regular expressions, and what str.strip() and str.split() take
\* as white space.
IsSpace(ch) == ch = " "

\* The character class of the final-punctuation pattern.
FinalPunctuation == {"maru", "ten", "!", "?", ".", ",", ";"}

\* str.lower() on one character: only cased letters change.
LowerChar(ch) ==
    CASE ch = "A" -> "a"
      [] ch = "B" -> "b"
      [] OTHER -> ch

Lower(text) == [i \in 1..Len(text) |-> LowerChar(text[i])]

\* str.strip(): leading and trailing white space removed.
Strip(text) ==
    LET inked == {i \in 1..Len(text) : ~IsSpace(text[i])}
    IN  IF inked = {} THEN <<>>
        ELSE SubSeq(text,
                    CHOOSE i \in inked : \A j \in inked : i <= j,
                    CHOOSE i \in inked : \A j \in inked : i >= j)

\* re.sub(r"[...]$", "", text): one final punctuation mark removed.
DropFinalPunctuation(text) ==
    IF text # <<>> /\ text[Len(text)] \in FinalPunctuation
    THEN SubSeq(text, 1, Len(text) - 1)
    ELSE text

\* re.sub(r"\s+", " ", text): every run of white space becomes one space.
CollapseSpaces(text) ==
    SelectSeq([i \in 1..Len(text) |->
                  IF IsSpace(text[i])
                  THEN (IF i > 1 /\ IsSpace(text[i - 1]) THEN "" ELSE " ")
                  ELSE text[i]],
              LAMBDA ch : ch # "")

\* _normalize_answer(text)
NormalizeAnswer(text) == CollapseSpaces(DropFinalPunctuation(Lower(Strip(text))))

RECURSIVE SplitOn(_, _)
\* text.split(sep): the pieces between separators, empty pieces included.
SplitOn(text, sep) ==
    LET hits == {i \in 1..Len(text) : text[i] = sep}
    IN  IF hits = {} THEN <<text>>
        ELSE <<SubSeq(text, 1, (CHOOSE i \in hits : \A j \in hits : i <= j) - 1)>>
             \o SplitOn(SubSeq(text, (CHOOSE i \in hits : \A j \in hits : i <= j) + 1, Len(text)), sep)

\* set(text.split()): the maximal runs without white space.
Words(text) ==
    {SubSeq(text, i, j) : <<i, j>> \in
        {ij \in (1..Len(text)) \X (1..Len(text)) :
            /\ ij[1] <= ij[2]
            /\ \A k \in ij[1]..ij[2] : ~IsSpace(text[k])
            /\ (ij[1] = 1 \/ IsSpace(text[ij[1] - 1]))
            /\ (ij[2] = Len(text) \/ IsSpace(text[ij[2] + 1]))}}

\* a in b, for texts.
IsSubstring(a, b) ==
    \E i \in 1..(Len(b) + 1) : i + Len(a) - 1 <= Len(b) /\ SubSeq(b, i, i + Len(a) - 1) = a

\* b.startswith(a)
IsPrefix(a, b) == Len(a) <= Len(b) /\ SubSeq(b, 1, Len(a)) = a

Chars(text) == {text[i] : i \in 1..Len(text)}

Score(n, d) == [n |-> n, d |-> d]

\* _char_similarity(s1, s2): Jaccard similarity of the character sets.
CharSimilarity(s1, s2) ==
    IF s1 = <<>> \/ s2 = <<>> THEN Score(0, 1)
    ELSE Score(Cardinality(Chars(s1) \cap Chars(s2)), Cardinality(Chars(s1) \cup Chars(s2)))

\* score >= 0.7
AtLeastSevenTenths(score) == score.n * 10 >= 7 * score.d

\* AnswerEvaluation(is_correct, score, feedback, error_category); category
\* "none" is None.
AnswerEvaluation(is_correct, score, error_category) ==
    [is_correct |-> is_correct, score |-> score, error_category |-> error_category]

\* _evaluate_build_sentence(user_norm, expected_norm, user_raw, expected_raw)
EvaluateBuildSentence(user_norm, expected_norm) ==
    IF Words(user_norm) = Words(expected_norm)
    THEN AnswerEvaluation(FALSE, Score(7, 10), "order")
    ELSE IF /\ Words(expected_norm) # {}
            /\ AtLeastSevenTenths(Score(Cardinality(Words(user_norm) \cap Words(expected_norm)),
                                        Cardinality(Words(expected_norm))))
         THEN AnswerEvaluation(FALSE,
                               Score(Cardinality(Words(user_norm) \cap Words(expected_norm)),
                                     Cardinality(Words(expected_norm))),
                               "order")
         ELSE AnswerEvaluation(FALSE, Score(0, 1), "meaning")

\* _evaluate_fill_blank(user_norm, accepted_norms, user_raw, expected_raw)
EvaluateFillBlank(user_norm, accepted_norms) ==
    IF \E k \in 1..Len(accepted_norms) :
          IsPrefix(accepted_norms[k], user_norm) \/ IsPrefix(user_norm, accepted_norms[k])
    THEN AnswerEvaluation(TRUE, Score(9, 10), "none")
    ELSE AnswerEvaluation(FALSE, Score(0, 1), "vocabulary")

\* _evaluate_translation(user_norm, accepted_norms, user_raw, expected_raw)
EvaluateTranslation(user_norm, accepted_norms) ==
    IF \E k \in 1..Len(accepted_norms) :
          IsSubstring(accepted_norms[k], user_norm) \/ IsSubstring(user_norm, accepted_norms[k])
    THEN AnswerEvaluation(TRUE, Score(85, 100), "none")
    ELSE IF AtLeastSevenTenths(CharSimilarity(user_norm, accepted_norms[1]))
         THEN AnswerEvaluation(FALSE, CharSimilarity(user_norm, accepted_norms[1]), "spelling")
         ELSE AnswerEvaluation(FALSE, CharSimilarity(user_norm, accepted_norms[1]), "vocabulary")

\* accepted_answers = [_normalize_answer(a) for a in expected_answer.split("/")]
AcceptedAnswers(expected_answer) ==
    [k \in 1..Len(SplitOn(expected_answer, "/")) |-> NormalizeAnswer(SplitOn(expected_answer, "/")[k])]

\* The dispatch on the exercise type, once the exact matches have failed.
EvaluateByType(user_norm, expected_norm, accepted_answers, exercise_type) ==
    IF exercise_type = BUILD_SENTENCE THEN EvaluateBuildSentence(user_norm, expected_norm)
    ELSE IF exercise_type = FILL_BLANK THEN EvaluateFillBlank(user_norm, accepted_answers)
    ELSE EvaluateTranslation(user_norm, accepted_answers)

\* evaluate_answer(user_answer, expected_answer, exercise_type)
EvaluateAnswer(user_answer, expected_answer, exercise_type) ==
    IF Strip(user_answer) = <<>>
    THEN AnswerEvaluation(FALSE, Score(0, 1), "empty")
    ELSE IF NormalizeAnswer(user_answer) = NormalizeAnswer(expected_answer)
    THEN AnswerEvaluation(TRUE, Score(1, 1), "none")
    ELSE IF \E k \in 1..Len(AcceptedAnswers(expected_answer)) :
               AcceptedAnswers(expected_answer)[k] = NormalizeAnswer(user_answer)
    THEN AnswerEvaluation(TRUE, Score(1, 1), "none")
    ELSE EvaluateByType(NormalizeAnswer(user_answer), NormalizeAnswer(expected_answer),
                        AcceptedAnswers(expected_answer), exercise_type)

---------------------------------------------------------------------------
(* Bounds of the model                                                     *)

\* Rows the ReviewLog and ExerciseSubmission tables may hold together.
MaxEvents == 5

\* Seed reviews simulated per card (seed.py simulates at most one a day for 7 days).
MaxSeedReviews == 3

\* Rows the ReviewLog may hold in SpecLong: ten reviews rated 5 take the
\* default ease to EASE_FACTOR_MAX, the eleventh meets the clamp.
MaxLongEvents == 11

\* Largest interval, in days, handed to a scheduler function called directly.
\* Up to 44 days the exact rounding of Round agrees with the code's float
\* arithmetic for every penalty in tenths.
MaxInterval == 40

\* Largest lapse count handed to calculate_next_review called directly.
MaxLapses == 1

\* Latest time stamp (minutes) handed to calculate_next_review as now.
MaxNow == 5

\* Cards of the largest deck in SpecQueue: one more than the cap on new
\* records of a session.
MaxCards == 11

\* Rows of the ReviewLog that may lie inside the analysis window at a time
\* in SpecResolve.
MaxWindowEvents == 5

---------------------------------------------------------------------------
(* Requests                                                                *)

Events == BagCardinality(log) + BagCardinality(subs)

\* The tables may take one more row.
Room == Events < MaxEvents

Current == Store(cards, srs, log, subs, patterns)

CurrentView == [patterns |-> patterns, srs |-> srs]

StatusOf(outcome) ==
    CASE outcome = "ok" -> 200
      [] outcome = "not_found" -> 404
      [] OTHER -> 500

\* What is left of the session's view once the session is closed.
Stored(final) == [patterns |-> final.patterns, srs |-> final.srs]

\* POST /review/submit -> submit_card_review -> submit_review, then get_db
\* closes the session.  ReviewSubmit validates 0 <= quality <= 5 (422).
SubmitCardReview(card_id, quality, fail_at) ==
    /\ phase = "serve"
    /\ IF quality < 0 \/ quality > 5
       THEN /\ fail_at = 0
            /\ resp' = Response("submit_review", 422, card_id, quality, "none", FALSE)
            /\ UNCHANGED <<srs, log, patterns>>
       ELSE \E r \in {SubmitReview(Current, card_id, quality, fail_at)} :
            \E final \in {CloseSession(r.store, r.committed, r.view)} :
                /\ r.outcome = "not_found" => fail_at = 0
                /\ r.outcome # "not_found" => fail_at \in PassEnds(r.store)
                /\ srs' = final.srs
                /\ log' = final.log
                /\ patterns' = final.patterns
                /\ resp' = Response("submit_review", StatusOf(r.outcome), card_id, r.quality, r.pass,
                                    r.view # Stored(final))
    /\ UNCHANGED <<cards, subs, phase, call, sessions>>

\* An ExerciseSubmission row.
SubmissionRow(exercise_id, is_correct) ==
    [exercise_id |-> exercise_id, is_correct |-> is_correct, recent |-> TRUE]

\* submit_exercise, lines 109-114: the pass is started for a wrong answer only.
PassIfWrong(st1, is_correct, fail_at) ==
    IF is_correct
    THEN [raised |-> FALSE, propagated |-> FALSE, view |-> [patterns |-> st1.patterns, srs |-> st1.srs]]
    ELSE TryAnalyze(st1, fail_at)

\* POST /exercises/submit -> submit_exercise.  The answer's evaluation is an
\* input here: is_correct is what evaluate_answer returned for the payload.
SubmitExercise(exercise_id, is_correct, fail_at) ==
    /\ phase = "serve"
    /\ IF exercise_id \notin DOMAIN Exercises
       THEN /\ fail_at = 0
            /\ resp' = Response("submit_exercise", 404, exercise_id, 0, "none", FALSE)
            /\ UNCHANGED <<srs, subs, patterns>>
       ELSE \E st1 \in {[Current EXCEPT !.subs = @ (+) SetToBag({SubmissionRow(exercise_id, is_correct)})]} :
            \E pass \in {PassIfWrong(st1, is_correct, fail_at)} :
            \E final \in {CloseSession(st1, ~pass.raised, pass.view)} :
                /\ IF is_correct THEN fail_at = 0 ELSE fail_at \in PassEnds(st1)
                /\ srs' = final.srs
                /\ subs' = final.subs
                /\ patterns' = final.patterns
                /\ resp' = Response("submit_exercise", IF pass.propagated THEN 500 ELSE 200,
                                    exercise_id, 0,
                                    IF is_correct THEN "none"
                                    ELSE IF pass.raised THEN "failed" ELSE "ok",
                                    pass.view # Stored(final))
    /\ UNCHANGED <<cards, log, phase, call, sessions>>

\* GET /progress/adaptation -> resolve_pattern_if_improved inside try/except,
\* then the read-only summary.  fail_at = 1: the resolution raises before its
\* commit, with its changes made to the session's objects only.
GetAdaptation(fail_at) ==
    /\ phase = "serve"
    /\ \E resolved \in {ResolvePatterns(Current)} :
       \E final \in {CloseSession(Current, fail_at = 0, [patterns |-> resolved, srs |-> srs])} :
           /\ patterns' = final.patterns
           /\ resp' = Response("get_adaptation", 200, 0, 0,
                               IF fail_at = 0 THEN "ok" ELSE "failed",
                               resolved # final.patterns)
    /\ UNCHANGED <<cards, srs, log, subs, phase, call, sessions>>

\* resolve_pattern_if_improved(user_id=1, db) called for its result: the
\* pass commits and the caller receives the list of the resolved patterns.
CallResolvePatternIfImproved ==
    /\ phase = "serve"
    /\ patterns' = ResolvePatterns(Current)
    /\ resp' = [op |-> "resolve_pattern_if_improved", status |-> 200,
                card_id |-> 0, quality |-> 0, pass |-> "ok", rolled_back |-> FALSE,
                returned |-> ResolvedPatterns(Current)]
    /\ UNCHANGED <<cards, srs, log, subs, phase, call, sessions>>

\* The rows of B, every one of them moved out of the analysis window.
AgeBag(B) ==
    LET old(r) == [r EXCEPT !.recent = FALSE]
        S      == {old(r) : r \in BagToSet(B)}
    IN  [x \in S |-> SumCopies(B, {r \in BagToSet(B) : old(r) = x})]

\* More than ANALYSIS_WINDOW_DAYS pass without a request: every stored row
\* falls behind the cutoff of the passes to come.
WindowElapses ==
    /\ phase = "serve"
    /\ RecentRows(log) \cup RecentRows(subs) # {}
    /\ log' = AgeBag(log)
    /\ subs' = AgeBag(subs)
    /\ resp' = NoResponse
    /\ UNCHANGED <<cards, srs, patterns, phase, call, sessions>>

\* GET /review/due -> get_cards_due -> get_due_cards, at time now (minutes
\* after the store's last write).  limit and include_new are query
\* parameters without validation.
GetCardsDue(limit, include_new, now) ==
    /\ phase = "serve"
    /\ call.fn = "none"
    /\ call' = [fn |-> "get_due_cards",
                limit |-> limit, include_new |-> include_new, now |-> now,
                candidates |-> Candidates(Current, include_new, now),
                result |-> GetDueCards(Current, limit, include_new, now)]
    /\ UNCHANGED <<cards, srs, log, subs, patterns, phase, resp, sessions>>

---------------------------------------------------------------------------
(* seed.py: simulated history written straight to the store                *)

\* _simulate_review_history, the record after one simulated review.
SeedSrs(rec, is_correct) ==
    IF is_correct
    THEN [rec EXCEPT !.repetitions = @ + 1,
                     !.state = IF rec.repetitions + 1 >= 2 THEN S_REVIEW ELSE S_LEARNING,
                     !.interval = Min(@ + 1, 7),
                     !.reviewed = TRUE,
                     !.due_date = Min(rec.interval + 1, 7) * MinutesPerDay]
    ELSE [rec EXCEPT !.lapses = @ + 1,
                     !.ease_factor = Max(130, @ - 15),
                     !.state = IF rec.state = S_REVIEW THEN S_RELEARNING ELSE S_LEARNING,
                     !.interval = Max(1, @ \div 2),
                     !.reviewed = TRUE,
                     !.due_date = 4 * MinutesPerHour]

\* One simulated review of a card: a ReviewLog row and the record's update.
SeedReview(card_id, is_correct) ==
    /\ phase = "seed"
    /\ SumCopies(log, {r \in BagToSet(log) : r.card_id = card_id}) < MaxSeedReviews
    /\ log' = log (+) SetToBag({ReviewRow(card_id, is_correct)})
    /\ srs' = [srs EXCEPT ![card_id] = SeedSrs(@, is_correct)]
    /\ resp' = NoResponse
    /\ UNCHANGED <<cards, subs, patterns, phase, call, sessions>>

\* The seed script is done: the server takes requests.
StartServing ==
    /\ phase = "seed"
    /\ phase' = "serve"
    /\ resp' = NoResponse
    /\ UNCHANGED <<cards, srs, log, subs, patterns, call, sessions>>

---------------------------------------------------------------------------
(* Specifications                                                          *)

IdleCall == [fn |-> "none"]

\* The threads of the server's pool that handle requests side by side.
Handlers == 1..2

\* A handler between requests: it has no session.
IdleSession == [pc |-> "idle"]

InitStore(deck, ph) ==
    /\ cards = deck
    /\ srs = [c \in DOMAIN deck |-> InitialSrs]
    /\ log = EmptyBag
    /\ subs = EmptyBag
    /\ patterns = <<>>
    /\ phase = ph
    /\ resp = NoResponse
    /\ call = IdleCall
    /\ sessions = [p \in Handlers |-> IdleSession]

\* Spec: a fresh install serving review requests.  The deck holds a
\* vocabulary card and a grammar card; card 3 is asked for but does not exist.
Init == InitStore((1 :> VOCAB) @@ (2 :> GRAMMAR), "serve")

Qualities == {2, 4}

Next ==
    \/ Room /\ \E c \in 1..2, q \in Qualities, f \in 0..PassSteps : SubmitCardReview(c, q, f)
    \/ \E q \in Qualities : SubmitCardReview(3, q, 0)
    \/ \E q \in {-1, 7} : SubmitCardReview(1, q, 0)
    \/ \E f \in 0..1 : GetAdaptation(f)

Spec == Init /\ [][Next]_vars

\* SpecExercise: one vocabulary card with its two exercises; exercise 3 is
\* asked for but does not exist.
InitExercise == InitStore((1 :> VOCAB), "serve")

NextExercise ==
    \/ Room /\ \E e \in 1..2, ok \in BOOLEAN, f \in 0..PassSteps : SubmitExercise(e, ok, f)
    \/ \E ok \in BOOLEAN : SubmitExercise(3, ok, 0)
    \/ Room /\ \E q \in Qualities, f \in 0..PassSteps : SubmitCardReview(1, q, f)
    \/ \E f \in 0..1 : GetAdaptation(f)

SpecExercise == InitExercise /\ [][NextExercise]_vars

\* SpecItem: one vocabulary card, seeded by seed.py and then reviewed with
\* every rating.
InitItem == InitStore((1 :> VOCAB), "seed")

NextItem ==
    \/ Room /\ \E ok \in BOOLEAN : SeedReview(1, ok)
    \/ StartServing
    \/ Room /\ \E q \in 0..5, f \in {0, PassSteps} : SubmitCardReview(1, q, f)
    \/ WindowElapses

SpecItem == InitItem /\ [][NextItem]_vars

\* SpecPair: two vocabulary cards, seeded by seed.py and then reviewed, the
\* pass of a review running to its end or failing at its commit.
InitPair == InitStore((1 :> VOCAB) @@ (2 :> VOCAB), "seed")

NextPair ==
    \/ Room /\ \E c \in 1..2, ok \in BOOLEAN : SeedReview(c, ok)
    \/ StartServing
    \/ Room /\ \E c \in 1..2, q \in Qualities, f \in {0, PassSteps} : SubmitCardReview(c, q, f)

SpecPair == InitPair /\ [][NextPair]_vars

\* SpecLong: one vocabulary card, seeded and then reviewed many times with
\* the worst rating, the lowest correct rating and the best rating, every
\* pass running to its end.
NextLong ==
    \/ \E ok \in BOOLEAN : SeedReview(1, ok)
    \/ StartServing
    \/ Events < MaxLongEvents /\ \E q \in {0, 3, 5} : SubmitCardReview(1, q, 0)

SpecLong == InitItem /\ [][NextLong]_vars

---------------------------------------------------------------------------
(* Overlapping requests.  The routes are plain functions, so the server     *)
(* runs each request in a thread of its pool with a session of its own      *)
(* (get_db).  A SELECT reads what is committed at that moment and leaves    *)
(* its values in the session's objects; a flush writes, with the values     *)
(* the session computed from what it loaded; SQLite lets one session write  *)
(* at a time, from its first flush to its commit, so a flush and the        *)
(* statements up to the commit after it are one step here.  The passes of   *)
(* these requests run to their end, over a deck of vocabulary cards and     *)
(* no exercise submissions: only the vocabulary analysis can write.         *)

\* The UPDATE a flush emits for a loaded object: the columns whose value
\* differs from the loaded one (and those in always, whose new value never
\* equals the old: time stamps) are set; the row keeps its other columns.
FlushUpdate(row, loaded, written, always) ==
    [col \in DOMAIN row |->
        IF col \in always \/ written[col] # loaded[col] THEN written[col] ELSE row[col]]

\* submit_review, lines 146-188: the record is loaded, the scheduler called,
\* the result set on the session's object.
BeginReview(p, card_id, quality) ==
    /\ phase = "serve"
    /\ sessions[p].pc = "idle"
    /\ card_id \in DOMAIN srs
    /\ sessions' = [sessions EXCEPT ![p] =
            [pc |-> "loaded", card_id |-> card_id, quality |-> ClampQuality(quality),
             loaded |-> srs[card_id],
             review_result |-> ScheduleReview(srs[card_id], ClampQuality(quality))]]
    /\ UNCHANGED <<cards, srs, log, subs, patterns, phase, resp, call>>

\* submit_review, lines 200-210: db.add(log); db.commit() -- the UPDATE of
\* the record, the INSERT of the Review Event, the commit.
FlushAndCommitReview(p) ==
    /\ sessions[p].pc = "loaded"
    /\ srs' = [srs EXCEPT ![sessions[p].card_id] =
                  FlushUpdate(@, sessions[p].loaded,
                              WriteResult(sessions[p].loaded, sessions[p].review_result),
                              {"due_date", "reviewed"})]
    /\ log' = log (+) SetToBag({ReviewRow(sessions[p].card_id, sessions[p].review_result.was_correct)})
    /\ sessions' = [sessions EXCEPT ![p] =
            [pc |-> "committed", card_id |-> sessions[p].card_id, quality |-> sessions[p].quality,
             loaded |-> sessions[p].loaded, review_result |-> sessions[p].review_result]]
    /\ UNCHANGED <<cards, subs, patterns, phase, resp, call>>

\* analyze_and_update_patterns, lines 69-78, and _analyze_vocab_errors up to
\* its threshold test: the window's reviews are read and the rate computed.
\* Below the gate or the threshold nothing is written and the request ends.
ScanReviews(p) ==
    /\ sessions[p].pc = "committed"
    /\ IF EnoughReviews(log) /\ Detected(ReviewSignal(cards, log, VOCAB), VOCAB_ERROR_THRESHOLD)
       THEN /\ sessions' = [sessions EXCEPT ![p] =
                    [pc |-> "scanned", card_id |-> sessions[p].card_id,
                     quality |-> sessions[p].quality,
                     signal |-> ReviewSignal(cards, log, VOCAB)]]
            /\ UNCHANGED resp
       ELSE /\ sessions' = [sessions EXCEPT ![p] = IdleSession]
            /\ resp' = Response("submit_review", 200, sessions[p].card_id, sessions[p].quality, "ok", FALSE)
    /\ UNCHANGED <<cards, srs, log, subs, patterns, phase, call>>

\* The first active pattern of a type, 0 when there is none.
FirstActive(pats, pattern_type) ==
    IF \E i \in 1..Len(pats) : pats[i].pattern_type = pattern_type /\ pats[i].is_active
    THEN CHOOSE i \in 1..Len(pats) :
            /\ pats[i].pattern_type = pattern_type /\ pats[i].is_active
            /\ \A k \in 1..(i - 1) : ~(pats[k].pattern_type = pattern_type /\ pats[k].is_active)
    ELSE 0

\* _upsert_pattern, lines 316-322: the SELECT of the active pattern of the type.
LookupPattern(p) ==
    /\ sessions[p].pc = "scanned"
    /\ sessions' = [sessions EXCEPT ![p] =
            [pc |-> "looked", card_id |-> sessions[p].card_id, quality |-> sessions[p].quality,
             signal |-> sessions[p].signal,
             existing |-> FirstActive(patterns, VOCAB_WEAKNESS),
             loaded |-> IF FirstActive(patterns, VOCAB_WEAKNESS) = 0 THEN <<>>
                        ELSE patterns[FirstActive(patterns, VOCAB_WEAKNESS)]]]
    /\ UNCHANGED <<cards, srs, log, subs, patterns, phase, resp, call>>

\* _upsert_pattern, lines 324-332: the loaded pattern as the session changes it.
ReinforcedPattern(loaded, description, affected_cards) ==
    [loaded EXCEPT !.count = @ + 1,
                   !.severity = Min(MAX_SEVERITY, @ + SEVERITY_INCREMENT),
                   !.description = description,
                   !.items_affected = @ \cup affected_cards]

\* _upsert_pattern, lines 334-343: the pattern the session inserts.
CreatedPattern(pattern_type, description, affected_cards) ==
    [pattern_type |-> pattern_type, description |-> description, count |-> 1,
     severity |-> SEVERITY_INCREMENT, items_affected |-> affected_cards, is_active |-> TRUE]

\* _upsert_pattern's flush (UPDATE of the loaded pattern or INSERT), then
\* _apply_srs_penalty_to_cards and the pass's commit.
FlushAndCommitPass(p) ==
    /\ sessions[p].pc = "looked"
    /\ patterns' =
          IF sessions[p].existing = 0
          THEN Append(patterns, CreatedPattern(VOCAB_WEAKNESS,
                                               Percent(sessions[p].signal.errors, sessions[p].signal.total),
                                               sessions[p].signal.affected))
          ELSE [patterns EXCEPT ![sessions[p].existing] =
                  FlushUpdate(@, sessions[p].loaded,
                              ReinforcedPattern(sessions[p].loaded,
                                                Percent(sessions[p].signal.errors, sessions[p].signal.total),
                                                sessions[p].signal.affected),
                              {})]
    /\ srs' = ApplySrsPenaltyToCards(srs, sessions[p].signal.affected, 6)
    /\ sessions' = [sessions EXCEPT ![p] = IdleSession]
    /\ resp' = Response("submit_review", 200, sessions[p].card_id, sessions[p].quality, "ok", FALSE)
    /\ UNCHANGED <<cards, log, subs, phase, call>>

\* The requests that have loaded the record and not yet committed.
InFlight == Cardinality({p \in Handlers : sessions[p].pc = "loaded"})

\* SpecRace: one vocabulary card with seeded history; the two handlers take
\* review requests for it side by side.
NextRace ==
    \/ Room /\ \E ok \in BOOLEAN : SeedReview(1, ok)
    \/ StartServing
    \/ Events + InFlight < MaxEvents
          /\ \E p \in Handlers, q \in Qualities : BeginReview(p, 1, q)
    \/ \E p \in Handlers : FlushAndCommitReview(p)
    \/ \E p \in Handlers : ScanReviews(p)
    \/ \E p \in Handlers : LookupPattern(p)
    \/ \E p \in Handlers : FlushAndCommitPass(p)

SpecRace == InitItem /\ [][NextRace]_vars

\* SpecQueue: a deck of 2, 3 or MaxCards vocabulary cards; seed.py simulates
\* history for cards 1 and 2, card 3 is reviewed, and then the queue is read
\* once, some time after the last write.
InitQueue == \E n \in {2, 3, MaxCards} : InitStore([c \in 1..n |-> VOCAB], "seed")

QueueLimits == {-1, 0, 1, 2, 20}

QueueTimes == {0, MinutesPerHour, MinutesPerDay, 2 * MinutesPerDay}

NextQueue ==
    \/ Room /\ \E c \in 1..2, ok \in BOOLEAN : SeedReview(c, ok)
    \/ StartServing
    \/ call.fn = "none" /\ Room /\ \E q \in Qualities : SubmitCardReview(3, q, 0)
    \/ \E limit \in QueueLimits, include_new \in BOOLEAN, now \in QueueTimes :
            GetCardsDue(limit, include_new, now)

SpecQueue == InitQueue /\ [][NextQueue]_vars

\* SpecResolve: two vocabulary cards reviewed until the window is full; the
\* window may elapse once, after which the reviews start a new window; the
\* resolution pass runs at any time.
InitResolve == InitStore((1 :> VOCAB) @@ (2 :> VOCAB), "serve")

NextResolve ==
    \/ SumCopies(log, RecentRows(log)) < MaxWindowEvents
          /\ \E c \in 1..2, q \in Qualities : SubmitCardReview(c, q, 0)
    \/ (\A r \in BagToSet(log) : r.recent) /\ WindowElapses
    \/ \E f \in 0..1 : GetAdaptation(f)

SpecResolve == InitResolve /\ [][NextResolve]_vars

\* SpecResolution: the history of SpecResolve, with the resolution pass
\* called for its result.
NextResolution ==
    \/ SumCopies(log, RecentRows(log)) < MaxWindowEvents
          /\ \E c \in 1..2, q \in Qualities : SubmitCardReview(c, q, 0)
    \/ (\A r \in BagToSet(log) : r.recent) /\ WindowElapses
    \/ CallResolvePatternIfImproved

SpecResolution == InitResolve /\ [][NextResolution]_vars

\* SpecRenewal: one vocabulary card reviewed window after window, each
\* window until it is full; the resolution pass runs at any time, so that a
\* weakness is detected, resolved and detected again.
NextRenewal ==
    \/ SumCopies(log, RecentRows(log)) < MaxWindowEvents
          /\ \E q \in Qualities : SubmitCardReview(1, q, 0)
    \/ BagCardinality(log) - SumCopies(log, RecentRows(log)) <= MaxWindowEvents /\ WindowElapses
    \/ \E f \in 0..1 : GetAdaptation(f)

SpecRenewal == InitExercise /\ [][NextRenewal]_vars

---------------------------------------------------------------------------
(* The scheduler's functions called directly                                *)

\* No direct call has been made yet.
NoCallYet == phase = "call" /\ call.fn = "none"

\* calculate_next_review(...) called once with the given arguments.
CallCalculateNextReview(quality, current_state, interval, ease_factor, repetitions, lapses, stability, adaptation_penalty, learning_step_index, now) ==
    /\ NoCallYet
    /\ call' = [fn |-> "calculate_next_review",
                quality |-> quality, current_state |-> current_state,
                interval |-> interval, ease_factor |-> ease_factor,
                repetitions |-> repetitions, lapses |-> lapses,
                stability |-> stability, adaptation_penalty |-> adaptation_penalty,
                learning_step_index |-> learning_step_index, now |-> now,
                result |-> CalculateNextReview(quality, current_state, interval,
                                               ease_factor, repetitions, lapses,
                                               stability, adaptation_penalty,
                                               learning_step_index, now)]
    /\ UNCHANGED <<cards, srs, log, subs, patterns, phase, resp, sessions>>

\* _apply_adaptation_penalty(interval, penalty) called once.
CallApplyAdaptationPenalty(interval, penalty) ==
    /\ NoCallYet
    /\ call' = [fn |-> "_apply_adaptation_penalty",
                interval |-> interval, penalty |-> penalty,
                result |-> ApplyAdaptationPenalty(interval, penalty)]
    /\ UNCHANGED <<cards, srs, log, subs, patterns, phase, resp, sessions>>

\* get_card_urgency_score(due_date, state, lapses, now) called once.
CallGetCardUrgencyScore(due_date, state, lapses, now) ==
    /\ NoCallYet
    /\ call' = [fn |-> "get_card_urgency_score",
                due_date |-> due_date, state |-> state, lapses |-> lapses, now |-> now,
                result |-> GetCardUrgencyScore(due_date, state, lapses, now)]
    /\ UNCHANGED <<cards, srs, log, subs, patterns, phase, resp, sessions>>

\* SpecSched: one direct call of a scheduler function, its arguments drawn
\* from the sets below.  Raw intervals are >= 1, as at every call site of
\* _apply_adaptation_penalty; penalties cover [0, 1] in tenths.
InitSched == InitStore((1 :> VOCAB), "call")

EaseFactors == {EASE_FACTOR_MIN, EASE_FACTOR_DEFAULT, EASE_FACTOR_MAX}

Penalties == 0..10

\* Stabilities, in thousandths of a day: the default of a new record, and
\* one that the shrinking of an incorrect review takes below the floor.
Stabilities == {600, 1000}

\* Time stamps, in minutes, handed to get_card_urgency_score.
Times == {0, 1, MaxNow, MinutesPerHour, MinutesPerDay}

NextSched ==
    \/ NoCallYet /\ \E quality \in 0..5, current_state \in SRSCardState,
          interval \in {0, 1, MaxInterval}, ease_factor \in EaseFactors,
          repetitions \in 0..2, lapses \in 0..MaxLapses,
          adaptation_penalty \in {0, 5, 10},
          learning_step_index \in 0..Len(LEARNING_STEPS_MINUTES),
          now \in {0, MaxNow} :
            \E stability \in Stabilities :
                CallCalculateNextReview(quality, current_state, interval, ease_factor,
                                        repetitions, lapses, stability, adaptation_penalty,
                                        learning_step_index, now)
    \/ NoCallYet /\ \E interval \in 1..MaxInterval, penalty \in Penalties :
            CallApplyAdaptationPenalty(interval, penalty)
    \/ NoCallYet /\ \E due_date \in {NullDate} \cup Times, state \in SRSCardState,
          lapses \in 0..MaxLapses, now \in Times :
            CallGetCardUrgencyScore(due_date, state, lapses, now)

SpecSched == InitSched /\ [][NextSched]_vars

---------------------------------------------------------------------------
(* The answer evaluator called directly                                     *)

\* evaluate_answer(user_answer, expected_answer, exercise_type) called once.
CallEvaluateAnswer(user_answer, expected_answer, exercise_type) ==
    /\ NoCallYet
    /\ call' = [fn |-> "evaluate_answer",
                user_answer |-> user_answer, expected_answer |-> expected_answer,
                exercise_type |-> exercise_type,
                result |-> EvaluateAnswer(user_answer, expected_answer, exercise_type)]
    /\ UNCHANGED <<cards, srs, log, subs, patterns, phase, resp, sessions>>

\* The words of the sentence "watashi-ha mainichi gohan-wo tabemasu", each a
\* run of characters.
SentenceWords ==
    << <<"watashi", "ha">>, <<"mai", "nichi">>, <<"go", "han", "wo">>, <<"ta", "be", "ma", "su">> >>

\* The orders the words can be put in.
WordOrders ==
    {p \in [1..Len(SentenceWords) -> 1..Len(SentenceWords)] :
        \A i, j \in DOMAIN p : i # j => p[i] # p[j]}

InOrder == [i \in 1..Len(SentenceWords) |-> i]

RECURSIVE Joined(_, _, _)
\* separator.join(the first n words in the order p)
Joined(p, n, separator) ==
    IF n = 0 THEN <<>>
    ELSE IF n = 1 THEN SentenceWords[p[1]]
    ELSE Joined(p, n - 1, separator) \o separator \o SentenceWords[p[n]]

\* The sentence as the lesson has it, without spaces, and with them.
Unspaced == Joined(InOrder, Len(SentenceWords), <<>>)

Spaced == Joined(InOrder, Len(SentenceWords), <<" ">>)

\* The words typed with spaces in an order that is not the sentence's.
Shuffled == {Joined(p, Len(SentenceWords), <<" ">>) : p \in WordOrders \ {InOrder}}

\* What a learner may submit: the words in any order, typed with or without
\* spaces, with or without a full stop; the sentence with one more word
\* ("ne") after it; or nothing but blanks or a full stop.
UserAnswers ==
    {Joined(p, Len(SentenceWords), separator) \o stop :
        p \in WordOrders, separator \in {<<>>, <<" ">>}, stop \in {<<>>, <<"maru">>}}
    \cup {Spaced \o <<" ", "ne">>}
    \cup {<<>>, <<" ">>, <<"maru">>}

\* What an exercise may expect: the sentence, with or without spaces and
\* full stop, or the sentence and an accepted variant.
ExpectedAnswers ==
    {sentence \o stop : sentence \in {Unspaced, Spaced}, stop \in {<<>>, <<"maru">>}}
    \cup {Unspaced \o <<"/">> \o Spaced}

\* SpecEval: one direct call of evaluate_answer.
NextEval ==
    NoCallYet /\ \E user_answer \in UserAnswers, expected_answer \in ExpectedAnswers,
                     exercise_type \in ExerciseType :
        CallEvaluateAnswer(user_answer, expected_answer, exercise_type)

SpecEval == InitSched /\ [][NextEval]_vars

---------------------------------------------------------------------------
(* Properties of the scheduler's functions (SpecSched)                     *)

\* C4: for every current state, learning step index, adaptation penalty in
\* [0, 1] and quality >= 3, the due date calculate_next_review returns is not
\* earlier than the time stamp now it was given.
C4_CorrectReviewDueNotBeforeNow ==
    (call.fn = "calculate_next_review" /\ call.quality >= 3)
        => call.result.new_due_date >= call.now

\* A correct review of a Review item under full penalty, made at a time
\* stamp after the epoch, came back with a later due date.
C4_Witness ==
    /\ call.fn = "calculate_next_review"
    /\ call.quality >= 3
    /\ call.current_state = S_REVIEW
    /\ call.adaptation_penalty = 10
    /\ call.now = MaxNow
    /\ call.result.new_due_date > call.now

\* C5: a review with quality < 3 of an item in state Review yields state
\* Relearning, one more lapse, interval 1 day, repetitions 0 and a due date
\* one day after now, whatever the interval, ease, repetitions and
\* adaptation penalty of the item.
C5_LapseFromReview ==
    (call.fn = "calculate_next_review" /\ call.current_state = S_REVIEW /\ call.quality < 3)
        => /\ call.result.new_state = S_RELEARNING
           /\ call.result.new_lapses = call.lapses + 1
           /\ call.result.new_interval = 1
           /\ call.result.new_repetitions = 0
           /\ call.result.new_due_date = call.now + MinutesPerDay
           /\ ~call.result.was_correct

\* A lapse of a long-interval, penalised Review item with repetitions.
C5_Witness ==
    /\ call.fn = "calculate_next_review"
    /\ call.current_state = S_REVIEW
    /\ call.quality < 3
    /\ call.interval = MaxInterval
    /\ call.adaptation_penalty = 10
    /\ call.repetitions = 2
    /\ call.result.new_state = S_RELEARNING

C15_UrgencyMonotoneInDelay ==
    call.fn = "get_card_urgency_score"
        => /\ call.due_date # NullDate =>
                \A due_date \in Times :
                    (call.now - due_date >= call.now - call.due_date)
                        => GetCardUrgencyScore(due_date, call.state, call.lapses, call.now)
                               >= call.result
           /\ (call.due_date = NullDate \/ call.due_date >= call.now)
                => call.result = ScoreUnitsPerPoint * (StatePriority(call.state) + call.lapses * 5)

\* An overdue record scored above its state priority and lapses.
C15_Witness ==
    /\ call.fn = "get_card_urgency_score"
    /\ call.due_date # NullDate
    /\ call.due_date < call.now
    /\ call.lapses > 0
    /\ call.result > ScoreUnitsPerPoint * (StatePriority(call.state) + call.lapses * 5)

---------------------------------------------------------------------------
(* Properties of the stored scheduling records                             *)

\* C1: after every submitReview call, whatever the ratings so far, the
\* stored ease_factor of every item lies in [1.3, 3.5]; this includes an
\* incorrect review, where the lapse penalty is subtracted after the shared
\* ease update was clamped.
C1_EaseWithinBounds ==
    \A c \in DOMAIN srs :
        /\ srs[c].ease_factor >= EASE_FACTOR_MIN
        /\ srs[c].ease_factor <= EASE_FACTOR_MAX

\* An incorrect review has just been stored for an item in Relearning whose
\* ease sits on the floor: the update and the lapse penalty both met it.
C1_Witness ==
    /\ resp.op = "submit_review"
    /\ resp.status = 200
    /\ resp.quality < LAPSE_THRESHOLD
    /\ srs[1].state = S_RELEARNING
    /\ srs[1].lapses >= 2
    /\ srs[1].ease_factor = EASE_FACTOR_MIN

\* C2 as stated: an item whose stored state is Review or Relearning, its due
\* date computed by a review, has a stored interval >= 1.
C2_IntervalAtLeastOne ==
    \A c \in DOMAIN srs :
        (srs[c].state \in {S_REVIEW, S_RELEARNING} /\ srs[c].reviewed)
            => srs[c].interval >= 1

\* C2, amended: an item in Review has a stored interval >= 1; an item in
\* Relearning has a stored interval >= 1, or interval 0 (intraday) with its
\* due date four hours after the review that stored it.
C2_IntervalByState ==
    \A c \in DOMAIN srs :
        /\ srs[c].state = S_REVIEW => srs[c].interval >= 1
        /\ srs[c].state = S_RELEARNING =>
                \/ srs[c].interval >= 1
                \/ srs[c].interval = 0 /\ srs[c].due_date = 4 * MinutesPerHour

\* An incorrect review of an item already in Relearning was stored with
\* interval 0.
C2_Witness ==
    /\ resp.op = "submit_review"
    /\ resp.status = 200
    /\ resp.quality < LAPSE_THRESHOLD
    /\ srs[1].state = S_RELEARNING
    /\ srs[1].interval = 0

\* C3 as stated: three consecutive correct submissions take an item from New
\* to Review.  In a store that only submitReview has written, an item with
\* at least three Review Events, all of them correct, is in Review.
C3_ThreeCorrectGraduate ==
    \A c \in DOMAIN srs :
        LET mine == {r \in BagToSet(log) : r.card_id = c}
        IN  (SumCopies(log, mine) >= 3 /\ \A r \in mine : r.was_correct)
                => srs[c].state = S_REVIEW

\* C14: for every item, adaptation_penalty is in [0, 1] after any
\* interleaving of submitReview calls and adaptation passes, given that it
\* starts at 0.
C14_PenaltyWithinUnit ==
    \A c \in DOMAIN srs :
        /\ srs[c].adaptation_penalty >= 0
        /\ srs[c].adaptation_penalty <= 10

\* A pass raised the item's penalty, and the correct reviews that followed
\* relaxed it step by step back to 0.
C14_Witness ==
    /\ resp.op = "submit_review"
    /\ resp.quality >= LAPSE_THRESHOLD
    /\ \E i \in 1..Len(patterns) : 1 \in patterns[i].items_affected
    /\ srs[1].adaptation_penalty = 0

---------------------------------------------------------------------------
(* Properties of the requests                                              *)

\* C7: submitReview for an item that has no Scheduling Record answers
\* not-found (404) and leaves the store as it was: no record created or
\* modified, no Review Event appended, no adaptation pass run.
C7_NotFoundLeavesStoreUnchanged ==
    [][\A c \in 1..3, q \in 0..5 :
          (c \notin DOMAIN srs /\ SubmitCardReview(c, q, 0))
              => /\ resp'.status = 404
                 /\ resp'.pass = "none"
                 /\ UNCHANGED <<cards, srs, log, subs, patterns>>]_vars

\* A review of an unknown item was refused while the store held history.
C7_Witness ==
    /\ resp.op = "submit_review"
    /\ resp.status = 404
    /\ resp.card_id \notin DOMAIN srs
    /\ log # EmptyBag

\* C8: when the adaptation pass started after a review fails, submitReview
\* still answers success (200), and the Review Event and the scheduler's
\* update of the record stay committed.
C8_PassFailureDoesNotFailReview ==
    [][\A f \in 1..PassSteps :
          SubmitCardReview(resp'.card_id, resp'.quality, f)
              => LET c == resp'.card_id
                     q == resp'.quality
                     written == WriteResult(srs[c], ScheduleReview(srs[c], q))
                 IN  /\ resp'.status = 200
                     /\ resp'.pass = "failed"
                     /\ log' = log (+) SetToBag({ReviewRow(c, q >= LAPSE_THRESHOLD)})
                     /\ [srs'[c] EXCEPT !.adaptation_penalty = 0]
                            = [written EXCEPT !.adaptation_penalty = 0]]_vars

\* A review was answered with success although its pass failed.
C8_Witness ==
    /\ resp.op = "submit_review"
    /\ resp.pass = "failed"
    /\ resp.status = 200
    /\ srs[resp.card_id].reviewed

\* C9: an adaptation pass that fails part-way, with writes flushed but not
\* committed, leaves the stored Error Patterns and every item's
\* adaptation_penalty as they were before the pass began (the reviewed
\* item's penalty being the one the review itself committed); this is the
\* store every later request reads.
C9_FailedPassLeavesNoTrace ==
    [][\A f \in 1..PassSteps :
          SubmitCardReview(resp'.card_id, resp'.quality, f)
              => LET c == resp'.card_id
                     q == resp'.quality
                     written == WriteResult(srs[c], ScheduleReview(srs[c], q))
                 IN  /\ patterns' = patterns
                     /\ \A k \in DOMAIN srs :
                            srs'[k].adaptation_penalty =
                                IF k = c THEN written.adaptation_penalty
                                ELSE srs[k].adaptation_penalty]_vars

\* A pass failed after it had flushed writes, and closing the request's
\* session dropped them.
C9_Witness ==
    /\ resp.op = "submit_review"
    /\ resp.pass = "failed"
    /\ resp.rolled_back

---------------------------------------------------------------------------
(* Properties of the adaptation pass                                       *)

\* The last request ran an adaptation pass to its end.
PassJustRan ==
    resp.op \in {"submit_review", "submit_exercise"} /\ resp.pass = "ok"

\* The store's patterns and records after one more pass on the same history.
SecondPass == AnalyzeAndUpdatePatterns(Current, 0).view

\* The step of the pass that upserts the pattern of a type.
UpsertStep(pattern_type) ==
    CASE pattern_type = VOCAB_WEAKNESS -> 1
      [] pattern_type = GRAMMAR_CONFUSION -> 3
      [] OTHER -> 5

\* C10 as stated: a second pass on unchanged history leaves every Error
\* Pattern (count, severity, affected set, is_active) and every
\* adaptation_penalty as the first pass left them.
C10_PassIdempotent ==
    PassJustRan => SecondPass = CurrentView

\* C10, amended: a second pass on unchanged history creates no pattern and
\* leaves every pattern's type, affected set, description and is_active and
\* every scheduling record as the first pass left them; for each active
\* pattern whose category still meets its threshold it raises count by one
\* and severity by 0.2, capped at 1.0.
C10_SecondPassOnlyReinforces ==
    PassJustRan =>
        /\ SecondPass.srs = srs
        /\ Len(SecondPass.patterns) = Len(patterns)
        /\ \A i \in 1..Len(patterns) :
              LET old == patterns[i]
                  new == SecondPass.patterns[i]
              IN  IF old.is_active /\ UpsertStep(old.pattern_type) \in PassWrites(Current)
                  THEN new = [old EXCEPT !.count = @ + 1,
                                         !.severity = Min(MAX_SEVERITY, @ + SEVERITY_INCREMENT)]
                  ELSE new = old

\* A pass has just created or reinforced a pattern, and a second pass on the
\* same history would change it again.
C10_Witness ==
    /\ PassJustRan
    /\ patterns # <<>>
    /\ SecondPass.patterns # patterns

\* C11: the severity of every Error Pattern is at most 1.0 after any number
\* of detection passes: a pattern that appears starts at 0.2, and a step
\* that changes an existing pattern's severity sets it to
\* min(1.0, severity + 0.2).
C11_SeverityCapped ==
    [][\A i \in 1..Len(patterns') :
          /\ patterns'[i].severity <= MAX_SEVERITY
          /\ IF i > Len(patterns)
             THEN patterns'[i].severity = SEVERITY_INCREMENT
             ELSE patterns'[i].severity \in
                     {patterns[i].severity,
                      Min(MAX_SEVERITY, patterns[i].severity + SEVERITY_INCREMENT)}]_vars

\* A pattern detected more often than the cap has room for: its severity
\* sits at 1.0 and the last pass reinforced it there.
C11_Witness ==
    /\ PassJustRan
    /\ \E i \in 1..Len(patterns) :
          /\ patterns[i].severity = MAX_SEVERITY
          /\ patterns[i].count * SEVERITY_INCREMENT > MAX_SEVERITY

---------------------------------------------------------------------------
(* Properties of the resolution pass (SpecResolve)                         *)

\* The trailing-window Review Events that touch a pattern's affected items.
TouchingReviews(pattern) ==
    SumCopies(log, {r \in RecentRows(log) : r.card_id \in pattern.items_affected})

\* C12: the resolution pass never deactivates a pattern when fewer than 5
\* trailing-window Review Events touch the pattern's affected items,
\* whatever their error rate.
C12_FewSamplesNeverResolve ==
    [][resp'.op = "get_adaptation" =>
          \A i \in 1..Len(patterns) :
              (patterns[i].is_active /\ TouchingReviews(patterns[i]) < MIN_REVIEWS_FOR_ANALYSIS)
                  => patterns'[i].is_active]_vars

\* A resolution pass has run over a pattern whose affected items had one to
\* four reviews in the window, none of them wrong, while the window held at
\* least five reviews: the pattern is still active.
C12_Witness ==
    /\ resp.op = "get_adaptation"
    /\ resp.pass = "ok"
    /\ SumCopies(log, RecentRows(log)) >= MIN_REVIEWS_FOR_ANALYSIS
    /\ \E i \in 1..Len(patterns) :
          /\ patterns[i].is_active
          /\ TouchingReviews(patterns[i]) \in 1..(MIN_REVIEWS_FOR_ANALYSIS - 1)
          /\ \A r \in RecentRows(log) :
                r.card_id \in patterns[i].items_affected => r.was_correct

---------------------------------------------------------------------------
(* Properties of the detection gates                                       *)

PatternTypes == {VOCAB_WEAKNESS, GRAMMAR_CONFUSION, STRUCTURE_CONFUSION}

\* The records of a pattern type's signal category inside the window:
\* vocab_reviews, grammar_reviews, structure_submissions.
CategoryRecords(pattern_type) ==
    CASE pattern_type = VOCAB_WEAKNESS -> ReviewSignal(cards, log, VOCAB).total
      [] pattern_type = GRAMMAR_CONFUSION -> ReviewSignal(cards, log, GRAMMAR).total
      [] OTHER -> StructureSignal(subs).total

\* This step created a pattern of the type or reinforced one.
Upserted(pattern_type) ==
    \E i \in 1..Len(patterns') :
        /\ patterns'[i].pattern_type = pattern_type
        /\ \/ i > Len(patterns)
           \/ patterns'[i].count > patterns[i].count

\* C13 as stated: a detection pass creates or reinforces the pattern of a
\* signal category only when that category itself has at least 5 records in
\* the trailing window (the records the pass read, the request's own row
\* included).
C13_CategoryMinimumSample ==
    [][\A t \in PatternTypes :
          Upserted(t) => CategoryRecords(t)' >= MIN_REVIEWS_FOR_ANALYSIS]_vars

---------------------------------------------------------------------------
(* Properties of the review queue (SpecQueue)                              *)

\* The urgency of a record of the store at the time of the queue's call.
QueueScore(c) == Urgency(srs, c, call.now)

\* C16 as stated: getDueItems returns at most limit items (none for a limit
\* below 1), no item twice, in descending order of urgency score, and no
\* candidate left out of the result has a strictly higher urgency score
\* than a returned item.
C16_TopLimitByUrgency ==
    call.fn = "get_due_cards" =>
        LET result == call.result
            returned == {result[k] : k \in 1..Len(result)}
            left_out == {call.candidates[k] : k \in 1..Len(call.candidates)} \ returned
        IN  /\ Len(result) <= Max(0, call.limit)
            /\ \A j, k \in 1..Len(result) : j # k => result[j] # result[k]
            /\ \A j, k \in 1..Len(result) :
                    j < k => QueueScore(result[j]) >= QueueScore(result[k])
            /\ \A c \in left_out, d \in returned : QueueScore(c) <= QueueScore(d)

\* C17 as stated: when new items are requested, the candidates that
\* getDueItems ranks hold at most 10 items in state New.
C17_AtMostTenNewCandidates ==
    (call.fn = "get_due_cards" /\ call.include_new) =>
        Cardinality({k \in 1..Len(call.candidates) : srs[call.candidates[k]].state = S_NEW})
            <= NEW_STATES_LIMIT

---------------------------------------------------------------------------
(* Properties of the answer evaluator (SpecEval)                           *)

\* C18 as stated: evaluateAnswer on a BuildSentence exercise whose
\* submission has the expected words in a different order, typed with
\* spaces (the case "tabemasu watashi-ha mainichi gohan-wo" against the
\* expected sentence written without spaces among them), returns incorrect
\* with score 0.7 and category "order".
C18_ShuffledWordsScoreOrder ==
    (/\ call.fn = "evaluate_answer"
     /\ call.exercise_type = BUILD_SENTENCE
     /\ call.user_answer \in Shuffled
     /\ call.expected_answer \in {Unspaced, Spaced})
        => call.result = AnswerEvaluation(FALSE, Score(7, 10), "order")

---------------------------------------------------------------------------
(* Properties of overlapping requests (SpecRace)                           *)

RECURSIVE Detections(_)
\* The detections the patterns have counted, all together.
Detections(pats) ==
    IF pats = <<>> THEN 0
    ELSE pats[Len(pats)].count + Detections(SubSeq(pats, 1, Len(pats) - 1))

\* C19 as stated: two adaptation passes for the same learner whose steps
\* interleave leave the patterns as the two passes run one after the other
\* would: there is at most one active pattern per type, and the upsert of
\* each detecting pass adds one detection to those counted so far (none is
\* lost).
C19_PassesDoNotRace ==
    [][/\ \A t \in PatternTypes :
            Cardinality({i \in 1..Len(patterns') :
                            patterns'[i].pattern_type = t /\ patterns'[i].is_active}) <= 1
       /\ \A p \in Handlers :
            (sessions[p].pc = "looked" /\ sessions'[p].pc = "idle")
                => Detections(patterns') = Detections(patterns) + 1]_vars

\* The columns of the record that the scheduler's result decides.
ResultColumns ==
    {"state", "interval", "ease_factor", "repetitions", "lapses", "stability", "due_date"}

\* The request of handler p has stored its review and is not yet answered.
HasWritten(p) == sessions[p].pc \in {"committed", "scanned", "looked"}

\* The record's scheduling fields are the scheduler's result for p's call.
HoldsResultOf(p) ==
    \A col \in ResultColumns :
        srs[sessions[p].card_id][col]
            = WriteResult(sessions[p].loaded, sessions[p].review_result)[col]

\* C20 as stated: when two submitReview calls for the same item overlap
\* (both computed from the same snapshot of the record), the record stored
\* once both have written has all its scheduling fields equal to the
\* scheduler's result for one of the two calls on the snapshot that call
\* read; it is never a mix of fields from both calls.
C20_FinalRecordIsOneCallsResult ==
    (/\ \A p \in Handlers : HasWritten(p)
     /\ sessions[1].card_id = sessions[2].card_id
     /\ sessions[1].loaded = sessions[2].loaded)
        => \E p \in Handlers : HoldsResultOf(p)

---------------------------------------------------------------------------
(* Properties of a review's effects on the store (Spec, SpecItem)          *)

\* A review has just been stored by this step.
ReviewStored == resp'.op = "submit_review" /\ resp'.status = 200 /\ log' # log

\* The penalty a detection of the type puts on the cards it implicates.
DetectionPenalty(pattern_type) ==
    CASE pattern_type = VOCAB_WEAKNESS -> 6
      [] pattern_type = GRAMMAR_CONFUSION -> 5
      [] OTHER -> 0

\* C21 as stated: a submitReview call for item A modifies the Scheduling
\* Record of item A only; every field, adaptation_penalty included, of every
\* other item's record is the same after the call as before it.
C21_OnlyOwnRecord ==
    [][ReviewStored => \A o \in DOMAIN srs \ {resp'.card_id} : srs'[o] = srs[o]]_vars

\* C21, amended: of another item's record a submitReview call for item A
\* changes no field but adaptation_penalty, and that one only through the
\* adaptation pass the call runs: the other item is then among the affected
\* items of an active pattern of its category and its penalty is the one
\* that category's detection applies (0.6 vocabulary, 0.5 grammar).
C21_OthersKeepAllButPenalty ==
    [][ReviewStored =>
          \A o \in DOMAIN srs \ {resp'.card_id} :
              /\ [srs'[o] EXCEPT !.adaptation_penalty = srs[o].adaptation_penalty] = srs[o]
              /\ srs'[o].adaptation_penalty # srs[o].adaptation_penalty =>
                    /\ resp'.pass = "ok"
                    /\ \E i \in 1..Len(patterns') :
                          /\ patterns'[i].is_active
                          /\ o \in patterns'[i].items_affected
                          /\ srs'[o].adaptation_penalty = DetectionPenalty(patterns'[i].pattern_type)]_vars

\* The fifth review of the window was a review of item 1, and the pass it
\* ran (the first that could detect anything) left the grammar penalty on
\* item 2.
C21_Witness ==
    /\ resp.op = "submit_review"
    /\ resp.status = 200
    /\ resp.card_id = 1
    /\ resp.pass = "ok"
    /\ BagCardinality(log) = MIN_REVIEWS_FOR_ANALYSIS
    /\ srs[2].adaptation_penalty = DetectionPenalty(GRAMMAR_CONFUSION)

\* C22 as stated: a review submitted with an integer quality outside 0..5
\* is never rejected; it stores the same Scheduling Record and the same
\* Review Event as the same submission with the quality clamped to the
\* nearest of 0 and 5.
C22_OutOfRangeQualityClamped ==
    [][\A q \in {-1, 7} :
          SubmitCardReview(1, q, 0)
              => \E r \in {SubmitReview(Current, 1, ClampQuality(q), 0)} :
                    /\ resp'.status = 200
                    /\ srs' = CloseSession(r.store, r.committed, r.view).srs
                    /\ log' = r.store.log]_vars

\* C23: every successful submitReview call appends exactly one Review Event,
\* for the call's item and with was_correct = (quality >= 3), and leaves the
\* events already stored as they are; no other operation (a refused or
\* not-found submission, an adaptation pass, a resolution pass) adds,
\* modifies or removes a Review Event.  So the events of an item are as many
\* as the successful submissions for it.
C23_OneEventPerSubmission ==
    [][IF resp'.op = "submit_review" /\ resp'.status = 200
       THEN log' = log (+) SetToBag({ReviewRow(resp'.card_id, resp'.quality >= 3)})
       ELSE log' = log]_vars

\* Item 1 was reviewed wrongly and correctly, a pass detected a pattern and a
\* resolution pass has just run: the item's events are all there.
C23_Witness ==
    /\ resp.op = "get_adaptation"
    /\ patterns # <<>>
    /\ \E r \in BagToSet(log) : r.card_id = 1 /\ r.was_correct
    /\ \E r \in BagToSet(log) : r.card_id = 1 /\ ~r.was_correct
    /\ BagCardinality(log) >= MIN_REVIEWS_FOR_ANALYSIS

---------------------------------------------------------------------------
(* Scenarios of the scheduler (SpecSched)                                  *)

\* C24: from state New a review with any quality yields state Learning with
\* interval 0 and a due date one minute after now; lapses is unchanged; the
\* stability is unchanged by a correct answer and becomes
\* max(0.5, stability * 0.7) by an incorrect one.
C24_NewGoesToLearning ==
    (call.fn = "calculate_next_review" /\ call.current_state = S_NEW)
        => /\ call.result.new_state = S_LEARNING
           /\ call.result.new_interval = 0
           /\ call.result.new_due_date = call.now + 1
           /\ call.result.new_lapses = call.lapses
           /\ call.quality >= 3 => call.result.new_stability = call.stability
           /\ call.quality < 3 =>
                call.result.new_stability = Max(500, (call.stability * 7) \div 10)

\* An incorrect first review, made after the epoch, of an item with lapses
\* on record and a stability that the shrinking takes to the floor.
C24_Witness ==
    /\ call.fn = "calculate_next_review"
    /\ call.current_state = S_NEW
    /\ call.quality < 3
    /\ call.now = MaxNow
    /\ call.lapses > 0
    /\ call.stability * 7 < 5000
    /\ call.result.new_stability = 500
    /\ call.result.new_state = S_LEARNING

\* C25: the scheduler called on a Learning item at the final learning step
\* with quality >= 3 returns state Review, repetitions 1 and the graduating
\* interval adjusted by the penalty (1 day when the penalty is 0); called
\* with quality < 3 at any step it returns Learning with interval 0 and a
\* due date one minute after now (step 0).
C25_LearningGraduatesOrRestarts ==
    (call.fn = "calculate_next_review" /\ call.current_state = S_LEARNING)
        => /\ (call.quality >= 3 /\ call.learning_step_index = Len(LEARNING_STEPS_MINUTES) - 1) =>
                /\ call.result.new_state = S_REVIEW
                /\ call.result.new_repetitions = 1
                /\ call.result.new_interval
                     = ApplyAdaptationPenalty(GRADUATING_INTERVAL_DAYS, call.adaptation_penalty)
                /\ call.adaptation_penalty = 0 => call.result.new_interval = 1
           /\ call.quality < 3 =>
                /\ call.result.new_state = S_LEARNING
                /\ call.result.new_interval = 0
                /\ call.result.new_due_date = call.now + 1

\* A Learning item at the final step graduated with no penalty to Review,
\* due one day after a time stamp past the epoch.
C25_Witness ==
    /\ call.fn = "calculate_next_review"
    /\ call.current_state = S_LEARNING
    /\ call.learning_step_index = Len(LEARNING_STEPS_MINUTES) - 1
    /\ call.quality = 4
    /\ call.adaptation_penalty = 0
    /\ call.now = MaxNow
    /\ call.result.new_state = S_REVIEW
    /\ call.result.new_interval = 1
    /\ call.result.new_due_date = MaxNow + MinutesPerDay

\* C26: for a Review item answered with quality >= 3 the raw interval is 6
\* days when repetitions = 1 and round(interval * updated ease_factor)
\* otherwise; the interval returned is max(1, penalty-adjusted raw), the
\* state stays Review, repetitions grows by exactly 1 and lapses is
\* unchanged.  With repetitions 1, interval 1, ease 2.5, quality 5 and no
\* penalty the interval is 6 and repetitions 2.
C26_ReviewIntervalGrowth ==
    (call.fn = "calculate_next_review" /\ call.current_state = S_REVIEW /\ call.quality >= 3)
        => /\ call.result.new_state = S_REVIEW
           /\ call.result.new_repetitions = call.repetitions + 1
           /\ call.result.new_lapses = call.lapses
           /\ call.result.new_interval
                = Max(1, ApplyAdaptationPenalty(
                            IF call.repetitions = 1 THEN 6
                            ELSE Round(call.interval * UpdatedEase(call.quality, call.ease_factor), 100),
                            call.adaptation_penalty))
           /\ (call.repetitions = 1 /\ call.interval = 1 /\ call.ease_factor = EASE_FACTOR_DEFAULT
                 /\ call.quality = 5 /\ call.adaptation_penalty = 0)
                => (call.result.new_interval = 6 /\ call.result.new_repetitions = 2)

\* A Review item past its second interval, under a penalty, was answered
\* correctly: its long interval was multiplied by the ease and shortened.
C26_Witness ==
    /\ call.fn = "calculate_next_review"
    /\ call.current_state = S_REVIEW
    /\ call.quality >= 3
    /\ call.repetitions = 2
    /\ call.interval = MaxInterval
    /\ call.adaptation_penalty > 0
    /\ call.result.new_interval > call.interval
    /\ call.result.new_interval * 100 < call.interval * UpdatedEase(call.quality, call.ease_factor)

---------------------------------------------------------------------------
(* Properties of an item's history of reviews (SpecItem)                   *)

\* C27: over any sequence of reviews of an item lapses never decreases; a
\* review adds exactly 1 to it when it is incorrect and the item is in
\* Review or in Relearning, and leaves it unchanged when it is correct or
\* the item is in New or Learning.
C27_LapsesCountForgetting ==
    [][/\ \A c \in DOMAIN srs : srs'[c].lapses >= srs[c].lapses
       /\ ReviewStored =>
            srs'[resp'.card_id].lapses
                = srs[resp'.card_id].lapses
                  + (IF resp'.quality < 3 /\ srs[resp'.card_id].state \in {S_REVIEW, S_RELEARNING}
                     THEN 1 ELSE 0)]_vars

\* An item that lapsed out of Review was answered incorrectly again while in
\* Relearning: both reviews were counted.
C27_Witness ==
    /\ resp.op = "submit_review"
    /\ resp.status = 200
    /\ resp.quality < 3
    /\ srs[1].state = S_RELEARNING
    /\ srs[1].interval = 0
    /\ srs[1].lapses >= 2
    /\ srs[1].repetitions = 0

\* C28 as stated: for a Review item reviewed with quality 2 the resulting
\* ease_factor is the ease_factor before the review reduced by 0.20, floored
\* at 1.3 (2.5 becomes 2.3).
C28_LapseLowersEaseByPenalty ==
    (call.fn = "calculate_next_review" /\ call.current_state = S_REVIEW /\ call.quality = 2)
        => call.result.new_ease_factor = Max(EASE_FACTOR_MIN, call.ease_factor - 20)

\* C28, amended: for a Review item reviewed with quality 2 the ease_factor
\* first takes the shared update of quality 2 (-0.32, clamped to
\* [1.3, 3.5]) and then the lapse penalty (-0.20, floored at 1.3): 2.5
\* becomes 1.98.
C28_LapseLowersEaseByUpdateAndPenalty ==
    (call.fn = "calculate_next_review" /\ call.current_state = S_REVIEW /\ call.quality = 2)
        => /\ call.result.new_ease_factor
                = Max(130, Max(130, Min(350, call.ease_factor - 32)) - 20)
           /\ call.ease_factor = 250 => call.result.new_ease_factor = 198

\* A Review item of default ease was reviewed with quality 2 and came back
\* with ease 1.98.
C28_Witness ==
    /\ call.fn = "calculate_next_review"
    /\ call.current_state = S_REVIEW
    /\ call.quality = 2
    /\ call.ease_factor = EASE_FACTOR_DEFAULT
    /\ call.result.new_ease_factor = 198
    /\ call.result.new_state = S_RELEARNING

---------------------------------------------------------------------------
(* Properties of the penalty over a long history (SpecLong)                *)

\* C29: the scheduling step of submitReview never raises an item's
\* adaptation_penalty: after a correct outcome the stored penalty is
\* max(0, penalty - 0.1), after an incorrect one it is the penalty as it
\* was.  When the stored penalty is anything else, the adaptation pass of
\* the call has detected the weakness and written its own penalty over it.
C29_SchedulingNeverRaisesPenalty ==
    [][ReviewStored =>
          IF Upserted(VOCAB_WEAKNESS)
          THEN srs'[resp'.card_id].adaptation_penalty = DetectionPenalty(VOCAB_WEAKNESS)
          ELSE srs'[resp'.card_id].adaptation_penalty
                 = (IF resp'.quality >= 3
                    THEN Max(0, srs[resp'.card_id].adaptation_penalty - 1)
                    ELSE srs[resp'.card_id].adaptation_penalty)]_vars

\* An incorrect review of an item whose penalty had been relaxed from 0.6 by
\* correct reviews: the pass detected nothing and the penalty is as it was.
C29_Witness ==
    /\ resp.op = "submit_review"
    /\ resp.status = 200
    /\ resp.quality < 3
    /\ resp.pass = "ok"
    /\ srs[1].adaptation_penalty > 0
    /\ srs[1].adaptation_penalty < DetectionPenalty(VOCAB_WEAKNESS)

---------------------------------------------------------------------------
(* Properties of a review and the pass it runs (SpecPair)                  *)

\* C30: within one submitReview call the interval is the scheduler's for
\* the adaptation_penalty stored before the call; a penalty that the pass of
\* this call writes is read by the scheduler at the item's next review, not
\* at this one.
C30_IntervalFromPenaltyBeforeCall ==
    [][ReviewStored =>
          srs'[resp'.card_id].interval
              = CalculateNextReview(resp'.quality,
                                    srs[resp'.card_id].state,
                                    srs[resp'.card_id].interval,
                                    srs[resp'.card_id].ease_factor,
                                    srs[resp'.card_id].repetitions,
                                    srs[resp'.card_id].lapses,
                                    srs[resp'.card_id].stability,
                                    srs[resp'.card_id].adaptation_penalty,
                                    0, 0).new_interval]_vars

\* The fifth review of the window was a correct review of item 1, in
\* Review: the pass it ran (the first that could write) left the penalty 0.6
\* on the item, and the interval stored is longer than that penalty allows.
C30_Witness ==
    /\ resp.op = "submit_review"
    /\ resp.status = 200
    /\ resp.card_id = 1
    /\ resp.quality >= 3
    /\ resp.pass = "ok"
    /\ BagCardinality(log) = MIN_REVIEWS_FOR_ANALYSIS
    /\ srs[1].state = S_REVIEW
    /\ srs[1].repetitions = 3
    /\ srs[1].adaptation_penalty = DetectionPenalty(VOCAB_WEAKNESS)
    /\ srs[1].interval
         > ApplyAdaptationPenalty(Round(3 * srs[1].ease_factor, 100), srs[1].adaptation_penalty)

---------------------------------------------------------------------------
(* Properties of the patterns' lifecycle (SpecResolve)                     *)

\* This step is a request whose adaptation pass ran to its end.
PassRan ==
    resp'.op \in {"submit_review", "submit_exercise"} /\ resp'.status = 200 /\ resp'.pass = "ok"

\* The signal of a pattern type's category over the window.
CategorySignal(pattern_type) ==
    CASE pattern_type = VOCAB_WEAKNESS -> ReviewSignal(cards, log, VOCAB)
      [] pattern_type = GRAMMAR_CONFUSION -> ReviewSignal(cards, log, GRAMMAR)
      [] OTHER -> StructureSignal(subs)

CategoryThreshold(pattern_type) ==
    CASE pattern_type = VOCAB_WEAKNESS -> VOCAB_ERROR_THRESHOLD
      [] pattern_type = GRAMMAR_CONFUSION -> GRAMMAR_ERROR_THRESHOLD
      [] OTHER -> STRUCTURE_ERROR_THRESHOLD

\* The patterns of the type that this step found are as they were, except
\* the one at index changed (0: none).
OthersOfTypeKept(pattern_type, changed) ==
    \A i \in 1..Len(patterns) :
        (patterns[i].pattern_type = pattern_type /\ i # changed) => patterns'[i] = patterns[i]

\* The patterns of the type that this step created.
CreatedOfType(pattern_type) ==
    {i \in (Len(patterns) + 1)..Len(patterns') : patterns'[i].pattern_type = pattern_type}

\* The step upserted the type's pattern with the items its category
\* implicates.
UpsertedAsSpecified(pattern_type, existing, affected) ==
    IF existing # 0
    THEN /\ patterns'[existing].count = patterns[existing].count + 1
         /\ patterns'[existing].severity = Min(10, patterns[existing].severity + 2)
         /\ patterns'[existing].items_affected = patterns[existing].items_affected \cup affected
         /\ patterns'[existing].is_active
         /\ OthersOfTypeKept(pattern_type, existing)
         /\ CreatedOfType(pattern_type) = {}
    ELSE /\ OthersOfTypeKept(pattern_type, 0)
         /\ Cardinality(CreatedOfType(pattern_type)) = 1
         /\ \A i \in CreatedOfType(pattern_type) :
               /\ patterns'[i].count = 1
               /\ patterns'[i].severity = 2
               /\ patterns'[i].is_active
               /\ patterns'[i].items_affected = affected

PenaltyBeforePass(c) ==
    IF resp'.op = "submit_review" /\ resp'.card_id = c /\ resp'.quality >= 3
    THEN Max(0, srs[c].adaptation_penalty - 1)
    ELSE srs[c].adaptation_penalty

\* The items that this step's pass implicates in a vocabulary or a grammar
\* weakness.
Implicated ==
    UNION {IF Detected(CategorySignal(t)', CategoryThreshold(t)) /\ EnoughReviews(log')
           THEN CategorySignal(t)'.affected ELSE {} : t \in {VOCAB_WEAKNESS, GRAMMAR_CONFUSION}}

---------------------------------------------------------------------------
(* Properties of the resolution pass and its result (SpecResolution)       *)

\* The trailing-window Review Events with an incorrect outcome that touch a
\* pattern's affected items.
TouchingErrors(pattern) ==
    SumCopies(log, {r \in RecentRows(log) : r.card_id \in pattern.items_affected /\ ~r.was_correct})

\* The patterns that this step deactivated.
Deactivated == {i \in 1..Len(patterns) : patterns[i].is_active /\ ~patterns'[i].is_active}

\* C33: the resolution pass deactivates an active pattern exactly when at
\* least 5 trailing-window Review Events touch its affected items and their
\* error rate is below 0.20; a deactivation changes is_active only, every
\* other pattern is left as it was, and the pass returns exactly the
\* patterns it deactivated, each once.
C33_ResolutionDeactivatesImproved ==
    [][resp'.op = "resolve_pattern_if_improved" =>
          /\ Len(patterns') = Len(patterns)
          /\ \A i \in 1..Len(patterns) :
                /\ patterns[i].is_active =>
                      (~patterns'[i].is_active
                          <=> /\ TouchingReviews(patterns[i]) >= 5
                              /\ TouchingErrors(patterns[i]) * 5 < TouchingReviews(patterns[i]))
                /\ patterns'[i] = [patterns[i] EXCEPT !.is_active = patterns'[i].is_active]
                /\ ~patterns[i].is_active => patterns'[i] = patterns[i]
          /\ {resp'.returned[k] : k \in 1..Len(resp'.returned)} = Deactivated
          /\ Len(resp'.returned) = Cardinality(Deactivated)]_vars

\* A resolution pass has deactivated the pattern of the table, detected in
\* the window before on both items and counted once: its result is that
\* pattern alone, and the pattern keeps its count, severity and items.
C33_Witness ==
    /\ resp.op = "resolve_pattern_if_improved"
    /\ resp.returned = <<1>>
    /\ Len(patterns) = 1
    /\ ~patterns[1].is_active
    /\ patterns[1].count = 1
    /\ patterns[1].severity = SEVERITY_INCREMENT
    /\ patterns[1].items_affected = {1, 2}
    /\ TouchingReviews(patterns[1]) >= MIN_REVIEWS_FOR_ANALYSIS

---------------------------------------------------------------------------
(* Properties of resolved patterns (SpecRenewal)                           *)

\* C34: deactivation is terminal and no pattern is removed: a pattern that
\* is not active keeps is_active false, its count, its severity and its
\* affected items through every later step (a renewed weakness creates a
\* new pattern), and every pattern of the table is still in it, with its
\* type, after every step.
C34_DeactivationIsTerminal ==
    [][/\ Len(patterns') >= Len(patterns)
       /\ \A i \in 1..Len(patterns) :
             /\ patterns'[i].pattern_type = patterns[i].pattern_type
             /\ ~patterns[i].is_active =>
                   /\ ~patterns'[i].is_active
                   /\ patterns'[i].count = patterns[i].count
                   /\ patterns'[i].severity = patterns[i].severity
                   /\ patterns'[i].items_affected = patterns[i].items_affected]_vars

\* The weakness came back after its pattern was resolved: the pass that
\* detected it again left the resolved pattern as it was, counted once, and
\* created a new one.
C34_Witness ==
    /\ PassJustRan
    /\ Len(patterns) = 2
    /\ patterns[1].pattern_type = VOCAB_WEAKNESS
    /\ ~patterns[1].is_active
    /\ patterns[1].count = 1
    /\ patterns[1].severity = SEVERITY_INCREMENT
    /\ patterns[2].pattern_type = VOCAB_WEAKNESS
    /\ patterns[2].is_active
    /\ patterns[2].count = 1

\* The active patterns of a type.
ActiveOfType(pattern_type) ==
    {i \in 1..Len(patterns) : patterns[i].pattern_type = pattern_type /\ patterns[i].is_active}

\* C37: at every moment there is at most one active pattern of each type,
\* after any sequence of detection and resolution passes that run one after
\* the other.
C37_OneActivePatternPerType ==
    \A t \in PatternTypes : Cardinality(ActiveOfType(t)) <= 1

\* Passes have detected the vocabulary weakness in two windows with
\* different error rates: the second reinforced the pattern of the first,
\* which is the only pattern.
C37_Witness ==
    /\ PassJustRan
    /\ Len(patterns) = 1
    /\ patterns[1].is_active
    /\ patterns[1].count = 2
    /\ patterns[1].description # Percent(2, 5)
    /\ \E r \in BagToSet(log) : ~r.recent

---------------------------------------------------------------------------
(* Properties of the queue's candidates and order (SpecQueue)              *)

\* C35 as stated: every record with due_at <= now is among the candidates
\* that getDueItems ranks, whatever its state and whether or not new items
\* are requested.
C35_EveryDueRecordIsCandidate ==
    call.fn = "get_due_cards" =>
        \A c \in DOMAIN srs :
            (srs[c].due_date # NullDate /\ srs[c].due_date <= call.now)
                => \E k \in 1..Len(call.candidates) : call.candidates[k] = c

\* What the delay and the lapses of a record add to its state's priority at
\* the time of the queue's call, in thirtieths of a point: two points per
\* hour of delay, five per lapse.
DelayAndLapses(c) ==
    (IF srs[c].due_date # NullDate /\ srs[c].due_date <= call.now
     THEN call.now - srs[c].due_date ELSE 0)
        + 150 * srs[c].lapses

\* The points of a state: Relearning 100, Learning 50, Review 10, New 1.
StatePoints(c) ==
    30 * (CASE srs[c].state = S_RELEARNING -> 100
            [] srs[c].state = S_LEARNING -> 50
            [] srs[c].state = S_REVIEW -> 10
            [] OTHER -> 1)

---------------------------------------------------------------------------
(* Properties of the evaluator's grades (SpecEval)                         *)

\* C38 as stated: a submission whose normalized text is empty (blank, or a
\* full stop alone) is never graded correct by evaluateAnswer, for every
\* answer type and every non-empty expected answer.
C38_EmptyAnswerNeverCorrect ==
    (/\ call.fn = "evaluate_answer"
     /\ NormalizeAnswer(call.user_answer) = <<>>
     /\ call.expected_answer # <<>>)
        => ~call.result.is_correct

\* C39 as stated: evaluateAnswer returns score 1.0 only together with
\* is_correct = true; an answer graded incorrect has a score strictly below
\* 1.0, for BuildSentence also when the submitted words are a strict
\* superset of the expected ones.
C39_FullScoreOnlyWhenCorrect ==
    (call.fn = "evaluate_answer" /\ ~call.result.is_correct)
        => call.result.score.n < call.result.score.d

====
